---- MODULE Spec2Model ----
(***************************************************************************)
(* Odds conversion engine of oddsidizer (src/src/convert.rs and friends).  *)
(*                                                                         *)
(* The library is a set of pure functions over American, Decimal and       *)
(* Fractional odds plus lazily initialised lookup tables.  A behaviour of  *)
(* the model is one call: Init draws the odds value and the configuration  *)
(* from bounded sets, an action applies one public function and records    *)
(* its result together with the lookup tables the call initialised.        *)
(*                                                                         *)
(* Specifications:                                                         *)
(*   Spec         one call of a function of convert.rs                     *)
(*   SpecOdds     one call of a method of Odds (odds.rs)                   *)
(*   SpecExtreme  one call of a Decimal function of convert.rs on a        *)
(*                decimal at the ends of the type's range                  *)
(*   SpecConfig   chains of the builder methods of ConversionConfig        *)
(*   SpecHistory  several calls in one process, one after another          *)
(*   SpecOnce     threads racing through the accessor of a lookup table    *)
(*   SpecLoop     the loop of decimal_to_fractional_simplify, one pass per *)
(*                step, on u64 values of their full width                  *)
(*   SpecTrip     fractional_to_decimal followed by the simplify strategy  *)
(*   SpecLookup   one call of a function of lookup_funcs.rs                *)
(*   SpecDistance one call of RaceDistance::from_yards (distance.rs)       *)
(*                                                                         *)
(* Decimal values (rust_decimal::Decimal) are held as exact rationals      *)
(* <<n, d>> in lowest terms with d > 0.  rust_decimal rounds a quotient at *)
(* its 28th fractional digit; the model keeps the quotient exact, so a     *)
(* difference of that order is below the model's resolution.  TLC's        *)
(* integers are 32 bits wide: the input sets of the function-level         *)
(* specifications keep every intermediate value inside that range, and the *)
(* one narrowing that can fail inside it (Decimal -> i32) is modelled in   *)
(* split form, see RoundedHundredfoldToI32.  Decimals near Decimal::MAX or *)
(* next to 1 have a form of their own, used by SpecExtreme only.  SpecLoop *)
(* holds u64 values as sequences of 16-bit limbs, so saturation at         *)
(* u64::MAX and the narrowing to u32 are computed as the code computes     *)
(* them.                                                                   *)
(***************************************************************************)
EXTENDS Integers, Sequences, FiniteSets, TLC

VARIABLES
    odds,      \* the input value: an Odds (American / Decimal / Fractional)
    config,    \* the ConversionConfig passed to the call
    call,      \* name of the function that was called, "none" before the call
    result,    \* Ok(value) or Err(error) returned by the call
    inited,    \* the OnceLock tables that have been initialised
    once       \* the threads inside OnceLock::get_or_init, see SpecOnce

vars == <<odds, config, call, result, inited, once>>

----------------------------------------------------------------------------
(* Bounds of the model.                                                    *)

\* American inputs cover -MaxAmerican .. MaxAmerican, plus every table key.
MaxAmerican == 130
\* Decimal inputs with three decimals cover
\* (1000 - BelowOneMilli)/1000 .. MaxMilli/1000.
BelowOneMilli == 15
MaxMilli == 2250
\* Decimal inputs with four decimals cover 1.0001 .. 1 + MaxTenThousandths/10000.
MaxTenThousandths == 60
\* Threads 1 .. NumThreads access the lookup tables concurrently.
NumThreads == 3
\* The initializer of a table inserts InsertChunk entries per step.
InsertChunk == 23
\* Fractional inputs cover numerators 0 .. MaxNum and denominators 0 .. MaxDen.
MaxNum == 12
MaxDen == 12
\* Decimals at the ends of the type's range are k * 10^e and 1 + k * 10^-e
\* with e in 28 - ExtremeSpan .. 28.
ExtremeSpan == 7
\* The loop of decimal_to_fractional_simplify is run step by step on
\* 1.000 .. 1 + LoopMilli/1000 (and on the values listed with LoopInputs).
LoopMilli == 40
\* Fractions n/d with n in 1 .. MaxTripNum and d in 0 .. MaxTripDen are
\* converted to a decimal and back.
MaxTripNum == 210
MaxTripDen == 104
\* RaceDistance::from_yards is called on 0 .. MaxYards yards.
MaxYards == 5300

----------------------------------------------------------------------------
(* Option and Result values.                                               *)

None == [some |-> FALSE]
Some(v) == [some |-> TRUE, v |-> v]

Ok(v) == [ok |-> TRUE, val |-> v]
Err(e) == [ok |-> FALSE, err |-> e]

ConversionError == {"AmericanZero", "DenominatorZero", "DecimalOverflow", "InvalidDecimal"}

----------------------------------------------------------------------------
(* Decimal arithmetic on rationals <<n, d>>.                               *)

Abs(x) == IF x < 0 THEN -x ELSE x

RECURSIVE gcd(_, _)
gcd(a, b) == IF b = 0 THEN Abs(a) ELSE gcd(b, a % Abs(b))

Norm(q) ==
    LET g == gcd(q[1], q[2])
        s == IF q[2] < 0 THEN -1 ELSE 1
    IN  <<s * (q[1] \div g), s * (q[2] \div g)>>

RECURSIVE Pow10(_)
Pow10(s) == IF s = 0 THEN 1 ELSE 10 * Pow10(s - 1)

\* dec!(m * 10^-s): the Decimal with mantissa m and scale s.  Decimals compare
\* and hash by value, so 1.0010 and 1.001 are the same key.
Dec(m, s) == Norm(<<m, Pow10(s)>>)

DecimalFrom(i) == <<i, 1>>
ONE == DecimalFrom(1)
TWO == DecimalFrom(2)
ONE_HUNDRED == DecimalFrom(100)
ONE_THOUSAND == DecimalFrom(1000)

DAdd(x, y) == Norm(<<x[1] * y[2] + y[1] * x[2], x[2] * y[2]>>)
DSub(x, y) == Norm(<<x[1] * y[2] - y[1] * x[2], x[2] * y[2]>>)
DNeg(x) == <<-x[1], x[2]>>
\* Products and quotients cancel common factors before multiplying.
DMul(x, y) ==
    LET g1 == gcd(x[1], y[2])
        g2 == gcd(y[1], x[2])
    IN  IF x[1] = 0 \/ y[1] = 0 THEN <<0, 1>>
        ELSE Norm(<<(x[1] \div g1) * (y[1] \div g2), (x[2] \div g2) * (y[2] \div g1)>>)
DDiv(x, y) == DMul(x, Norm(<<y[2], y[1]>>))

DLt(x, y) == x[1] * y[2] < y[1] * x[2]
DLe(x, y) == x[1] * y[2] <= y[1] * x[2]
DGt(x, y) == DLt(y, x)
DGe(x, y) == DLe(y, x)
DMin(x, y) == IF DLe(x, y) THEN x ELSE y

\* Decimal::floor
DFloor(x) == x[1] \div x[2]

----------------------------------------------------------------------------
(* rust_decimal::RoundingStrategy and Decimal::round_dp_with_strategy(0).  *)

RoundingStrategy ==
    {"MidpointNearestEven", "MidpointAwayFromZero", "MidpointTowardZero",
     "ToZero", "AwayFromZero", "ToNegativeInfinity", "ToPositiveInfinity"}

\* x rounded to an integer (0 decimal places) under the strategy.
round_dp_with_strategy(x, strategy) ==
    LET lo == x[1] \div x[2]      \* floor
        r  == x[1] % x[2]         \* x - floor, in units of 1/x[2]
        up == lo + 1
        towardZero == IF x[1] >= 0 THEN lo ELSE up
        awayFromZero == IF x[1] >= 0 THEN up ELSE lo
    IN  IF r = 0 THEN lo
        ELSE CASE strategy = "ToNegativeInfinity" -> lo
               [] strategy = "ToPositiveInfinity" -> up
               [] strategy = "ToZero" -> towardZero
               [] strategy = "AwayFromZero" -> awayFromZero
               [] OTHER ->
                    IF 2 * r < x[2] THEN lo
                    ELSE IF 2 * r > x[2] THEN up
                    ELSE CASE strategy = "MidpointNearestEven" ->
                                IF lo % 2 = 0 THEN lo ELSE up
                           [] strategy = "MidpointAwayFromZero" -> awayFromZero
                           [] strategy = "MidpointTowardZero" -> towardZero

\* Largest i32.
I32_MAX == 2147483647

\* round_dp_with_strategy(0, strategy).to_i32() of the Decimal
\* sgn * 100 * y, for a rational y > 0 and sgn in {1, -1}: Some(i) when the
\* rounded value is an i32, None otherwise.  The value is split as
\* sgn * 100 * hi + lo with hi = floor(y), so that nothing larger than
\* I32_MAX is ever formed; 100 * hi is an even integer, so rounding the
\* whole value is rounding lo.
RoundedHundredfoldToI32(sgn, y, strategy) ==
    LET hi == y[1] \div y[2]
        lo == round_dp_with_strategy(Norm(<<sgn * 100 * (y[1] % y[2]), y[2]>>), strategy)
        top == I32_MAX \div 100
        rest == I32_MAX % 100
    IN  IF hi < top THEN Some(sgn * 100 * hi + lo)
        ELSE IF hi > top THEN None
        ELSE IF sgn = 1 THEN (IF lo <= rest THEN Some(100 * top + lo) ELSE None)
        ELSE IF lo >= -(rest + 1) THEN Some((-100 * top) + lo) ELSE None

\* Decimal::to_u64 / to_u32: the integer part, None for a negative value.
\* (Values above the unsigned range lie outside the model's integers.)
to_unsigned(x) ==
    IF x[1] < 0 THEN None ELSE Some(x[1] \div x[2])

unwrap_or_default(o) == IF o.some THEN o.v ELSE 0

----------------------------------------------------------------------------
(* src/src/config.rs                                                       *)

FractionStrategy == {"Plain", "Simplify"}
LookupVariant == {"None", "Basic", "Extended"}

ConversionConfig ==
    [lookup_tables_variant : LookupVariant,
     fraction_strategy : FractionStrategy,
     rounding_strategy : RoundingStrategy]

DEFAULT_CONVERSION_CONFIG ==
    [lookup_tables_variant |-> "Basic",
     fraction_strategy |-> "Simplify",
     rounding_strategy |-> "MidpointAwayFromZero"]

no_lookup(self) == [self EXCEPT !.lookup_tables_variant = "None"]
extended_lookup(self) == [self EXCEPT !.lookup_tables_variant = "Extended"]

\* plain_fraction_strategy starting from the default configuration.
plain_fraction_strategy_of_default(self) ==
    [DEFAULT_CONVERSION_CONFIG EXCEPT !.fraction_strategy = "Plain"]

plain_fraction_strategy(self) == [self EXCEPT !.fraction_strategy = "Plain"]
fraction_strategy(self, strategy) == [self EXCEPT !.fraction_strategy = strategy]
rounding_strategy(self, strategy) == [self EXCEPT !.rounding_strategy = strategy]

\* impl Default for ConversionConfig
default == DEFAULT_CONVERSION_CONFIG

----------------------------------------------------------------------------
(* src/src/lookup_tables.rs: the six OnceLock<HashMap> tables.             *)

EmptyMap == [k \in {} |-> k]

\* HashMap::get
MapGet(m, k) == IF k \in DOMAIN m THEN Some(m[k]) ELSE None

\* Option::or
OptionOr(a, b) == IF a.some THEN a ELSE b

get_decimal_to_fraction_map ==
    (Dec(101, 2) :> <<1, 100>>) @@ (Dec(12, 1) :> <<1, 5>>) @@ (Dec(122, 2) :> <<2, 9>>) @@
    (Dec(125, 2) :> <<1, 4>>) @@ (Dec(129, 2) :> <<2, 7>>) @@ (Dec(13, 1) :> <<3, 10>>) @@
    (Dec(133, 2) :> <<1, 3>>) @@ (Dec(136, 2) :> <<4, 11>>) @@ (Dec(14, 1) :> <<2, 5>>) @@
    (Dec(144, 2) :> <<4, 9>>) @@ (Dec(15, 1) :> <<1, 2>>) @@ (Dec(153, 2) :> <<8, 15>>) @@
    (Dec(157, 2) :> <<4, 7>>) @@ (Dec(162, 2) :> <<8, 13>>) @@ (Dec(167, 2) :> <<4, 6>>) @@
    (Dec(173, 2) :> <<8, 11>>) @@ (Dec(18, 1) :> <<4, 5>>) @@ (Dec(183, 2) :> <<5, 6>>) @@
    (Dec(191, 2) :> <<10, 11>>) @@ (Dec(2, 0) :> <<1, 1>>) @@ (Dec(205, 2) :> <<21, 20>>) @@
    (Dec(21, 1) :> <<11, 10>>) @@ (Dec(215, 2) :> <<23, 20>>) @@ (Dec(22, 1) :> <<6, 5>>) @@
    (Dec(225, 2) :> <<5, 4>>) @@ (Dec(238, 2) :> <<11, 8>>) @@ (Dec(24, 1) :> <<7, 5>>) @@
    (Dec(25, 1) :> <<6, 4>>) @@ (Dec(26, 1) :> <<8, 5>>) @@ (Dec(262, 2) :> <<13, 8>>) @@
    (Dec(275, 2) :> <<7, 4>>) @@ (Dec(28, 1) :> <<9, 5>>) @@ (Dec(288, 2) :> <<15, 8>>) @@
    (Dec(3, 0) :> <<2, 1>>) @@ (Dec(32, 1) :> <<11, 5>>) @@ (Dec(325, 2) :> <<9, 4>>) @@
    (Dec(34, 1) :> <<12, 5>>) @@ (Dec(35, 1) :> <<5, 2>>) @@ (Dec(36, 1) :> <<13, 5>>) @@
    (Dec(375, 2) :> <<11, 4>>) @@ (Dec(4, 0) :> <<3, 1>>) @@ (Dec(42, 1) :> <<16, 5>>) @@
    (Dec(433, 2) :> <<10, 3>>) @@ (Dec(45, 1) :> <<7, 2>>) @@ (Dec(5, 0) :> <<4, 1>>) @@
    (Dec(55, 1) :> <<9, 2>>) @@ (Dec(6, 0) :> <<5, 1>>) @@ (Dec(65, 1) :> <<11, 2>>) @@
    (Dec(7, 0) :> <<6, 1>>) @@ (Dec(75, 1) :> <<13, 2>>) @@ (Dec(8, 0) :> <<7, 1>>) @@
    (Dec(85, 1) :> <<15, 2>>) @@ (Dec(9, 0) :> <<8, 1>>) @@ (Dec(10, 0) :> <<9, 1>>) @@
    (Dec(11, 0) :> <<10, 1>>) @@ (Dec(12, 0) :> <<11, 1>>) @@ (Dec(13, 0) :> <<12, 1>>) @@
    (Dec(14, 0) :> <<13, 1>>) @@ (Dec(15, 0) :> <<14, 1>>) @@ (Dec(16, 0) :> <<15, 1>>) @@
    (Dec(17, 0) :> <<16, 1>>) @@ (Dec(19, 0) :> <<18, 1>>) @@ (Dec(21, 0) :> <<20, 1>>) @@
    (Dec(26, 0) :> <<25, 1>>) @@ (Dec(34, 0) :> <<33, 1>>) @@ (Dec(51, 0) :> <<50, 1>>) @@
    (Dec(67, 0) :> <<66, 1>>) @@ (Dec(101, 0) :> <<100, 1>>) @@ (Dec(1001, 0) :> <<1000, 1>>)

get_decimal_to_fraction_extended_map ==
    (Dec(10010, 4) :> <<1, 1000>>) @@ (Dec(10013, 4) :> <<1, 750>>) @@ (Dec(10020, 4) :> <<1, 500>>) @@
    (Dec(10025, 4) :> <<1, 400>>) @@ (Dec(10030, 4) :> <<1, 300>>) @@ (Dec(10040, 4) :> <<1, 250>>) @@
    (Dec(10050, 4) :> <<1, 200>>) @@ (Dec(10070, 4) :> <<1, 150>>) @@ (Dec(10120, 4) :> <<1, 80>>) @@
    (Dec(10150, 4) :> <<1, 66>>) @@ (Dec(10200, 4) :> <<1, 50>>) @@ (Dec(10250, 4) :> <<1, 40>>) @@
    (Dec(10300, 4) :> <<1, 33>>) @@ (Dec(10400, 4) :> <<1, 25>>) @@ (Dec(10500, 4) :> <<1, 20>>) @@
    (Dec(10550, 4) :> <<1, 18>>) @@ (Dec(10600, 4) :> <<1, 16>>) @@ (Dec(10700, 4) :> <<1, 14>>) @@
    (Dec(10800, 4) :> <<1, 12>>) @@ (Dec(10900, 4) :> <<1, 11>>) @@ (Dec(11000, 4) :> <<1, 10>>) @@
    (Dec(11100, 4) :> <<1, 9>>) @@ (Dec(11200, 4) :> <<1, 8>>) @@ (Dec(11300, 4) :> <<2, 15>>) @@
    (Dec(11400, 4) :> <<1, 7>>) @@ (Dec(11500, 4) :> <<2, 13>>) @@ (Dec(11600, 4) :> <<1, 6>>) @@
    (Dec(11800, 4) :> <<2, 11>>) @@ (Dec(11900, 4) :> <<19, 100>>) @@ (Dec(12100, 4) :> <<21, 100>>) @@
    (Dec(12300, 4) :> <<23, 100>>) @@ (Dec(12400, 4) :> <<6, 25>>) @@ (Dec(12600, 4) :> <<13, 50>>) @@
    (Dec(12700, 4) :> <<27, 100>>) @@ (Dec(13100, 4) :> <<31, 100>>) @@ (Dec(13200, 4) :> <<8, 25>>) @@
    (Dec(13400, 4) :> <<17, 50>>) @@ (Dec(13500, 4) :> <<7, 20>>) @@ (Dec(13700, 4) :> <<37, 100>>) @@
    (Dec(13800, 4) :> <<19, 50>>) @@ (Dec(13900, 4) :> <<39, 100>>) @@ (Dec(14100, 4) :> <<41, 100>>) @@
    (Dec(14200, 4) :> <<21, 50>>) @@ (Dec(14300, 4) :> <<43, 100>>) @@ (Dec(14500, 4) :> <<9, 20>>) @@
    (Dec(14600, 4) :> <<23, 50>>) @@ (Dec(14700, 4) :> <<40, 85>>) @@ (Dec(14800, 4) :> <<12, 25>>) @@
    (Dec(14900, 4) :> <<49, 100>>) @@ (Dec(15100, 4) :> <<51, 100>>) @@ (Dec(15200, 4) :> <<13, 25>>) @@
    (Dec(15400, 4) :> <<27, 50>>) @@ (Dec(15500, 4) :> <<11, 20>>) @@ (Dec(15600, 4) :> <<14, 25>>) @@
    (Dec(15800, 4) :> <<29, 50>>) @@ (Dec(15900, 4) :> <<59, 100>>) @@ (Dec(16000, 4) :> <<3, 5>>) @@
    (Dec(16100, 4) :> <<8, 13>>) @@ (Dec(16300, 4) :> <<63, 100>>) @@ (Dec(16400, 4) :> <<16, 25>>) @@
    (Dec(16500, 4) :> <<13, 20>>) @@ (Dec(16600, 4) :> <<4, 6>>) @@ (Dec(16800, 4) :> <<34, 50>>) @@
    (Dec(16900, 4) :> <<69, 100>>) @@ (Dec(17000, 4) :> <<7, 10>>) @@ (Dec(17100, 4) :> <<71, 100>>) @@
    (Dec(17200, 4) :> <<8, 11>>) @@ (Dec(17400, 4) :> <<37, 50>>) @@ (Dec(17500, 4) :> <<3, 4>>) @@
    (Dec(17600, 4) :> <<19, 25>>) @@ (Dec(17700, 4) :> <<77, 100>>) @@ (Dec(17800, 4) :> <<39, 50>>) @@
    (Dec(17900, 4) :> <<79, 100>>) @@ (Dec(18100, 4) :> <<81, 100>>) @@ (Dec(18200, 4) :> <<41, 50>>) @@
    (Dec(18400, 4) :> <<21, 25>>) @@ (Dec(18500, 4) :> <<17, 20>>) @@ (Dec(18600, 4) :> <<20, 23>>) @@
    (Dec(18700, 4) :> <<87, 100>>) @@ (Dec(18800, 4) :> <<22, 25>>) @@ (Dec(18900, 4) :> <<89, 100>>) @@
    (Dec(19000, 4) :> <<9, 10>>) @@ (Dec(19200, 4) :> <<23, 25>>) @@ (Dec(19300, 4) :> <<93, 100>>) @@
    (Dec(19400, 4) :> <<47, 50>>) @@ (Dec(19500, 4) :> <<20, 21>>) @@ (Dec(19600, 4) :> <<24, 25>>) @@
    (Dec(19700, 4) :> <<97, 100>>) @@ (Dec(19800, 4) :> <<49, 50>>) @@ (Dec(19900, 4) :> <<99, 100>>) @@
    (Dec(20100, 4) :> <<101, 100>>) @@ (Dec(20200, 4) :> <<51, 50>>) @@ (Dec(20300, 4) :> <<103, 100>>) @@
    (Dec(20400, 4) :> <<26, 25>>) @@ (Dec(20600, 4) :> <<53, 50>>) @@ (Dec(20700, 4) :> <<107, 100>>) @@
    (Dec(20800, 4) :> <<27, 25>>) @@ (Dec(20900, 4) :> <<109, 100>>) @@ (Dec(21100, 4) :> <<111, 100>>) @@
    (Dec(21200, 4) :> <<28, 25>>) @@ (Dec(21300, 4) :> <<113, 100>>) @@ (Dec(21400, 4) :> <<57, 50>>) @@
    (Dec(21600, 4) :> <<29, 25>>) @@ (Dec(21700, 4) :> <<117, 100>>) @@ (Dec(21800, 4) :> <<59, 50>>) @@
    (Dec(21900, 4) :> <<119, 100>>) @@ (Dec(22100, 4) :> <<121, 100>>) @@ (Dec(22200, 4) :> <<61, 50>>) @@
    (Dec(22300, 4) :> <<123, 100>>) @@ (Dec(22400, 4) :> <<31, 25>>) @@ (Dec(22600, 4) :> <<63, 50>>) @@
    (Dec(22700, 4) :> <<127, 100>>) @@ (Dec(22800, 4) :> <<32, 25>>) @@ (Dec(23000, 4) :> <<13, 10>>) @@
    (Dec(23200, 4) :> <<33, 25>>) @@ (Dec(23400, 4) :> <<67, 50>>) @@ (Dec(23500, 4) :> <<27, 20>>) @@
    (Dec(23600, 4) :> <<34, 25>>) @@ (Dec(23700, 4) :> <<11, 8>>) @@ (Dec(24200, 4) :> <<71, 50>>) @@
    (Dec(24400, 4) :> <<36, 25>>) @@ (Dec(24500, 4) :> <<29, 20>>) @@ (Dec(24600, 4) :> <<73, 50>>) @@
    (Dec(24800, 4) :> <<37, 25>>) @@ (Dec(25200, 4) :> <<38, 25>>) @@ (Dec(25400, 4) :> <<77, 50>>) @@
    (Dec(25600, 4) :> <<39, 25>>) @@ (Dec(25800, 4) :> <<79, 50>>) @@ (Dec(26400, 4) :> <<41, 25>>) @@
    (Dec(26600, 4) :> <<83, 50>>) @@ (Dec(26800, 4) :> <<42, 25>>) @@ (Dec(27000, 4) :> <<17, 10>>) @@
    (Dec(27200, 4) :> <<43, 25>>) @@ (Dec(27400, 4) :> <<87, 50>>) @@ (Dec(27600, 4) :> <<44, 25>>) @@
    (Dec(27800, 4) :> <<89, 50>>) @@ (Dec(28200, 4) :> <<91, 50>>) @@ (Dec(28400, 4) :> <<46, 25>>) @@
    (Dec(28600, 4) :> <<93, 50>>) @@ (Dec(28700, 4) :> <<15, 8>>) @@ (Dec(29000, 4) :> <<19, 10>>) @@
    (Dec(29200, 4) :> <<48, 25>>) @@ (Dec(29400, 4) :> <<97, 50>>) @@ (Dec(29600, 4) :> <<49, 25>>) @@
    (Dec(29800, 4) :> <<99, 50>>) @@ (Dec(30500, 4) :> <<41, 20>>) @@ (Dec(31000, 4) :> <<21, 10>>) @@
    (Dec(31250, 4) :> <<85, 40>>) @@ (Dec(31500, 4) :> <<43, 20>>) @@ (Dec(33000, 4) :> <<23, 10>>) @@
    (Dec(33500, 4) :> <<47, 20>>) @@ (Dec(34500, 4) :> <<49, 20>>) @@ (Dec(35500, 4) :> <<51, 20>>) @@
    (Dec(36500, 4) :> <<53, 20>>) @@ (Dec(37000, 4) :> <<27, 10>>) @@ (Dec(38000, 4) :> <<14, 5>>) @@
    (Dec(38500, 4) :> <<57, 20>>) @@ (Dec(39500, 4) :> <<59, 20>>) @@ (Dec(40500, 4) :> <<61, 20>>) @@
    (Dec(41000, 4) :> <<31, 10>>) @@ (Dec(41500, 4) :> <<63, 20>>) @@ (Dec(42500, 4) :> <<13, 4>>) @@
    (Dec(43000, 4) :> <<33, 10>>) @@ (Dec(43500, 4) :> <<67, 20>>) @@ (Dec(44000, 4) :> <<17, 5>>) @@
    (Dec(44500, 4) :> <<69, 20>>) @@ (Dec(45500, 4) :> <<71, 20>>) @@ (Dec(46000, 4) :> <<18, 5>>) @@
    (Dec(46500, 4) :> <<73, 20>>) @@ (Dec(47000, 4) :> <<37, 10>>) @@ (Dec(47500, 4) :> <<15, 4>>) @@
    (Dec(48000, 4) :> <<19, 5>>) @@ (Dec(48500, 4) :> <<77, 20>>) @@ (Dec(49000, 4) :> <<39, 10>>) @@
    (Dec(49500, 4) :> <<79, 20>>) @@ (Dec(51000, 4) :> <<41, 10>>) @@ (Dec(52000, 4) :> <<21, 5>>) @@
    (Dec(53000, 4) :> <<43, 10>>) @@ (Dec(54000, 4) :> <<22, 5>>) @@ (Dec(56000, 4) :> <<23, 5>>) @@
    (Dec(57000, 4) :> <<47, 10>>) @@ (Dec(58000, 4) :> <<24, 5>>) @@ (Dec(59000, 4) :> <<49, 10>>) @@
    (Dec(62000, 4) :> <<26, 5>>) @@ (Dec(64000, 4) :> <<27, 5>>) @@ (Dec(66000, 4) :> <<28, 5>>) @@
    (Dec(68000, 4) :> <<29, 5>>) @@ (Dec(72000, 4) :> <<31, 5>>) @@ (Dec(74000, 4) :> <<32, 5>>) @@
    (Dec(76000, 4) :> <<33, 5>>) @@ (Dec(78000, 4) :> <<34, 5>>) @@ (Dec(82000, 4) :> <<36, 5>>) @@
    (Dec(84000, 4) :> <<37, 5>>) @@ (Dec(86000, 4) :> <<38, 5>>) @@ (Dec(88000, 4) :> <<39, 5>>) @@
    (Dec(92000, 4) :> <<41, 5>>) @@ (Dec(94000, 4) :> <<42, 5>>) @@ (Dec(95000, 4) :> <<17, 2>>) @@
    (Dec(96000, 4) :> <<43, 5>>) @@ (Dec(98000, 4) :> <<44, 5>>) @@ (Dec(230000, 4) :> <<22, 1>>) @@
    (Dec(290000, 4) :> <<28, 1>>) @@ (Dec(310000, 4) :> <<30, 1>>) @@ (Dec(360000, 4) :> <<35, 1>>) @@
    (Dec(410000, 4) :> <<40, 1>>) @@ (Dec(460000, 4) :> <<45, 1>>) @@ (Dec(560000, 4) :> <<55, 1>>) @@
    (Dec(610000, 4) :> <<60, 1>>) @@ (Dec(710000, 4) :> <<70, 1>>) @@ (Dec(760000, 4) :> <<75, 1>>) @@
    (Dec(810000, 4) :> <<80, 1>>) @@ (Dec(860000, 4) :> <<85, 1>>) @@ (Dec(910000, 4) :> <<90, 1>>) @@
    (Dec(960000, 4) :> <<95, 1>>) @@ (Dec(1110000, 4) :> <<110, 1>>) @@ (Dec(1210000, 4) :> <<120, 1>>) @@
    (Dec(1260000, 4) :> <<125, 1>>) @@ (Dec(1310000, 4) :> <<130, 1>>) @@ (Dec(1410000, 4) :> <<140, 1>>) @@
    (Dec(1510000, 4) :> <<150, 1>>) @@ (Dec(1760000, 4) :> <<175, 1>>) @@ (Dec(2010000, 4) :> <<200, 1>>) @@
    (Dec(2260000, 4) :> <<225, 1>>) @@ (Dec(2510000, 4) :> <<250, 1>>) @@ (Dec(2760000, 4) :> <<275, 1>>) @@
    (Dec(3010000, 4) :> <<300, 1>>) @@ (Dec(4010000, 4) :> <<400, 1>>) @@ (Dec(5010000, 4) :> <<500, 1>>)

get_american_to_fraction_map ==
    (-10000 :> <<1, 100>>) @@ (-500 :> <<1, 5>>) @@ (-450 :> <<2, 9>>) @@
    (-400 :> <<1, 4>>) @@ (-350 :> <<2, 7>>) @@ (-333 :> <<3, 10>>) @@
    (-300 :> <<1, 3>>) @@ (-275 :> <<4, 11>>) @@ (-250 :> <<2, 5>>) @@
    (-225 :> <<4, 9>>) @@ (-200 :> <<1, 2>>) @@ (-188 :> <<8, 15>>) @@
    (-175 :> <<4, 7>>) @@ (-163 :> <<8, 13>>) @@ (-150 :> <<4, 6>>) @@
    (-138 :> <<8, 11>>) @@ (-125 :> <<4, 5>>) @@ (-120 :> <<5, 6>>) @@
    (-110 :> <<10, 11>>) @@ (100 :> <<1, 1>>) @@ (105 :> <<21, 20>>) @@
    (110 :> <<11, 10>>) @@ (115 :> <<23, 20>>) @@ (120 :> <<6, 5>>) @@
    (125 :> <<5, 4>>) @@ (138 :> <<11, 8>>) @@ (140 :> <<7, 5>>) @@
    (150 :> <<6, 4>>) @@ (160 :> <<8, 5>>) @@ (163 :> <<13, 8>>) @@
    (175 :> <<7, 4>>) @@ (180 :> <<9, 5>>) @@ (188 :> <<15, 8>>) @@
    (200 :> <<2, 1>>) @@ (220 :> <<11, 5>>) @@ (225 :> <<9, 4>>) @@
    (240 :> <<12, 5>>) @@ (250 :> <<5, 2>>) @@ (260 :> <<13, 5>>) @@
    (275 :> <<11, 4>>) @@ (300 :> <<3, 1>>) @@ (320 :> <<16, 5>>) @@
    (333 :> <<10, 3>>) @@ (350 :> <<7, 2>>) @@ (400 :> <<4, 1>>) @@
    (450 :> <<9, 2>>) @@ (500 :> <<5, 1>>) @@ (550 :> <<11, 2>>) @@
    (600 :> <<6, 1>>) @@ (650 :> <<13, 2>>) @@ (700 :> <<7, 1>>) @@
    (750 :> <<15, 2>>) @@ (800 :> <<8, 1>>) @@ (900 :> <<9, 1>>) @@
    (1000 :> <<10, 1>>) @@ (1100 :> <<11, 1>>) @@ (1200 :> <<12, 1>>) @@
    (1300 :> <<13, 1>>) @@ (1400 :> <<14, 1>>) @@ (1500 :> <<15, 1>>) @@
    (1600 :> <<16, 1>>) @@ (1800 :> <<18, 1>>) @@ (2000 :> <<20, 1>>) @@
    (2500 :> <<25, 1>>) @@ (3300 :> <<33, 1>>) @@ (5000 :> <<50, 1>>) @@
    (6600 :> <<66, 1>>) @@ (10000 :> <<100, 1>>) @@ (100000 :> <<1000, 1>>)

get_american_to_fraction_extended_map == EmptyMap

get_american_to_decimal_map ==
    (-10000 :> Dec(101, 2)) @@ (-500 :> Dec(12, 1)) @@ (-450 :> Dec(122, 2)) @@
    (-400 :> Dec(125, 2)) @@ (-350 :> Dec(129, 2)) @@ (-333 :> Dec(13, 1)) @@
    (-300 :> Dec(133, 2)) @@ (-275 :> Dec(136, 2)) @@ (-250 :> Dec(14, 1)) @@
    (-225 :> Dec(144, 2)) @@ (-200 :> Dec(15, 1)) @@ (-188 :> Dec(153, 2)) @@
    (-175 :> Dec(157, 2)) @@ (-163 :> Dec(162, 2)) @@ (-150 :> Dec(167, 2)) @@
    (-138 :> Dec(173, 2)) @@ (-125 :> Dec(18, 1)) @@ (-120 :> Dec(183, 2)) @@
    (-110 :> Dec(191, 2)) @@ (100 :> Dec(2, 0)) @@ (105 :> Dec(205, 2)) @@
    (110 :> Dec(21, 1)) @@ (115 :> Dec(215, 2)) @@ (120 :> Dec(22, 1)) @@
    (125 :> Dec(225, 2)) @@ (138 :> Dec(238, 2)) @@ (140 :> Dec(24, 1)) @@
    (150 :> Dec(25, 1)) @@ (160 :> Dec(26, 1)) @@ (163 :> Dec(262, 2)) @@
    (175 :> Dec(275, 2)) @@ (180 :> Dec(28, 1)) @@ (188 :> Dec(288, 2)) @@
    (200 :> Dec(3, 0)) @@ (220 :> Dec(32, 1)) @@ (225 :> Dec(325, 2)) @@
    (240 :> Dec(34, 1)) @@ (250 :> Dec(35, 1)) @@ (260 :> Dec(36, 1)) @@
    (275 :> Dec(375, 2)) @@ (300 :> Dec(4, 0)) @@ (320 :> Dec(42, 1)) @@
    (333 :> Dec(433, 2)) @@ (350 :> Dec(45, 1)) @@ (400 :> Dec(5, 0)) @@
    (450 :> Dec(55, 1)) @@ (500 :> Dec(6, 0)) @@ (550 :> Dec(65, 1)) @@
    (600 :> Dec(7, 0)) @@ (650 :> Dec(75, 1)) @@ (700 :> Dec(8, 0)) @@
    (750 :> Dec(85, 1)) @@ (800 :> Dec(9, 0)) @@ (900 :> Dec(10, 0)) @@
    (1000 :> Dec(11, 0)) @@ (1100 :> Dec(12, 0)) @@ (1200 :> Dec(13, 0)) @@
    (1300 :> Dec(14, 0)) @@ (1400 :> Dec(15, 0)) @@ (1500 :> Dec(16, 0)) @@
    (1600 :> Dec(17, 0)) @@ (1800 :> Dec(19, 0)) @@ (2000 :> Dec(21, 0)) @@
    (2500 :> Dec(26, 0)) @@ (3300 :> Dec(34, 0)) @@ (5000 :> Dec(51, 0)) @@
    (6600 :> Dec(67, 0)) @@ (10000 :> Dec(101, 0)) @@ (100000 :> Dec(1001, 0))

get_american_to_decimal_extended_map == EmptyMap

----------------------------------------------------------------------------
(* The OnceLock cells of the tables under concurrent access.               *)

Threads == 1 .. NumThreads

\* The statics followed thread by thread; all six are declared alike.
OnceTables == {"DECIMAL_TO_FRACTION", "AMERICAN_TO_DECIMAL"}

\* The number of entries the initializer of a table inserts.
Full(table) ==
    IF table = "DECIMAL_TO_FRACTION" THEN Cardinality(DOMAIN get_decimal_to_fraction_map)
    ELSE Cardinality(DOMAIN get_american_to_decimal_map)

Idle == [at |-> "idle", table |-> "none", m |-> 0]

\* pc: where each thread is; m is the number of entries in the local map of
\* a running initializer.  value: the number of entries of the map stored
\* in each cell.  builds: how many initializers were started per table.
\* seen: the number of entries of the map get_or_init last returned to each
\* thread, -1 before its first return.
OnceInit ==
    [pc |-> [t \in Threads |-> Idle],
     value |-> [table \in OnceTables |-> 0],
     builds |-> [table \in OnceTables |-> 0],
     seen |-> [t \in Threads |-> [table \in OnceTables |-> -1]]]

\* Some thread is running the initializer of the table.
Running(table) ==
    \E t \in Threads : once.pc[t].at = "building" /\ once.pc[t].table = table

\* A check-then-initialize entry: no caller waits for a running initializer.
get_or_init_unsynchronized(complete, running) ==
    IF complete THEN "return" ELSE "initialize"

\* OnceLock::get_or_init on entry: return the stored map, run the
\* initializer, or wait for the thread that is running it.
get_or_init(complete, running) ==
    IF complete THEN "return"
    ELSE IF running THEN "block"
    ELSE "initialize"

----------------------------------------------------------------------------
(* src/src/convert.rs                                                      *)

\* normalize_american_odds with the upper limit of the first range off by one.
normalize_american_odds_inclusive(o) ==
    IF o > 0 /\ o <= 100 THEN -((100 * 100) \div o)
    ELSE IF o < 0 /\ o > -100 THEN (100 * 100) \div (-o)
    ELSE o

\* Normalize american odds (1..99 become negative, -1..-99 positive).
normalize_american_odds(o) ==
    IF o > 0 /\ o < 100 THEN -((100 * 100) \div o)
    ELSE IF o < 0 /\ o > -100 THEN (100 * 100) \div (-o)
    ELSE o

\* american_to_decimal_inner without the negation of a negative value.
american_to_decimal_inner_unnegated(value) ==
    LET value_dec == DecimalFrom(value)
    IN  IF value > 0 THEN Ok(DAdd(DDiv(value_dec, ONE_HUNDRED), ONE))
        ELSE IF value < 0 THEN Ok(DAdd(DDiv(ONE_HUNDRED, value_dec), ONE))
        ELSE Err("AmericanZero")

\* american_to_decimal_inner taking zero into the positive branch.
american_to_decimal_inner_zero_positive(value) ==
    LET value_dec == DecimalFrom(value)
    IN  IF value >= 0 THEN Ok(DAdd(DDiv(value_dec, ONE_HUNDRED), ONE))
        ELSE Ok(DAdd(DDiv(ONE_HUNDRED, DNeg(value_dec)), ONE))

\* american_to_decimal_inner leaving the stake out of the payout.
american_to_decimal_inner_without_stake(value) ==
    IF value > 0 THEN Ok(DDiv(DecimalFrom(value), ONE_HUNDRED))
    ELSE IF value < 0 THEN Ok(DDiv(ONE_HUNDRED, DNeg(DecimalFrom(value))))
    ELSE Err("AmericanZero")

american_to_decimal_inner(value) ==
    LET value_dec == DecimalFrom(value)
    IN  IF value > 0 THEN Ok(DAdd(DDiv(value_dec, ONE_HUNDRED), ONE))
        ELSE IF value < 0 THEN Ok(DAdd(DDiv(ONE_HUNDRED, DNeg(value_dec)), ONE))
        ELSE Err("AmericanZero")

\* american_to_decimal_custom reading the table only once some earlier call
\* has initialised it.
american_to_decimal_custom_if_initialised(value, cfg) ==
    IF value = 0 THEN Err("AmericanZero")
    ELSE
        LET ret == IF cfg.lookup_tables_variant \in {"Basic", "Extended"}
                      /\ "AMERICAN_TO_DECIMAL" \in inited
                   THEN MapGet(get_american_to_decimal_map, value)
                   ELSE None
        IN  IF ret.some THEN Ok(ret.v) ELSE american_to_decimal_inner(value)

american_to_decimal_custom(value, cfg) ==
    IF value = 0 THEN Err("AmericanZero")
    ELSE
        LET ret == CASE cfg.lookup_tables_variant = "Basic" ->
                            MapGet(get_american_to_decimal_map, value)
                     [] cfg.lookup_tables_variant = "Extended" ->
                            OptionOr(MapGet(get_american_to_decimal_map, value),
                                     MapGet(get_american_to_decimal_extended_map, value))
                     [] OTHER -> None
        IN  IF ret.some THEN Ok(ret.v) ELSE american_to_decimal_inner(value)

\* The tables american_to_decimal_custom passes through get_or_init.
american_to_decimal_custom_tables(value, cfg) ==
    IF value = 0 THEN {}
    ELSE CASE cfg.lookup_tables_variant = "Basic" -> {"AMERICAN_TO_DECIMAL"}
           [] cfg.lookup_tables_variant = "Extended" ->
                {"AMERICAN_TO_DECIMAL", "AMERICAN_TO_DECIMAL_EXTENDED"}
           [] OTHER -> {}

\* decimal_to_fractional_plain reducing by gcd(numerator, 1000).
decimal_to_fractional_plain_gcd_1000(value, cfg) ==
    IF DLe(value, ONE) THEN Err("InvalidDecimal")
    ELSE
        LET scaled == DMul(DSub(value, ONE), ONE_THOUSAND)
            numerator == unwrap_or_default(to_unsigned(
                DecimalFrom(round_dp_with_strategy(scaled, cfg.rounding_strategy))))
            divisor == gcd(numerator, 1000)
            num == DDiv(DecimalFrom(numerator), DecimalFrom(divisor))
            den == DDiv(ONE_THOUSAND, DecimalFrom(divisor))
        IN  Ok(<<unwrap_or_default(to_unsigned(num)), unwrap_or_default(to_unsigned(den))>>)

\* decimal_to_fractional_plain without the check of its argument.
decimal_to_fractional_plain_unchecked(value, cfg) ==
    LET scaled == DMul(DSub(value, ONE), ONE_THOUSAND)
        numerator == unwrap_or_default(to_unsigned(
            DecimalFrom(round_dp_with_strategy(scaled, cfg.rounding_strategy))))
        divisor == gcd(numerator, 100000)
        num == DDiv(DecimalFrom(numerator), DecimalFrom(divisor))
        den == DDiv(ONE_THOUSAND, DecimalFrom(divisor))
    IN  Ok(<<unwrap_or_default(to_unsigned(num)), unwrap_or_default(to_unsigned(den))>>)

\* Plain strategy: thousandths over gcd(numerator, 100000).
decimal_to_fractional_plain(value, cfg) ==
    IF DLe(value, ONE) THEN Err("InvalidDecimal")
    ELSE
        LET scaled == DMul(DSub(value, ONE), ONE_THOUSAND)
            numerator == unwrap_or_default(to_unsigned(
                DecimalFrom(round_dp_with_strategy(scaled, cfg.rounding_strategy))))
            divisor == gcd(numerator, 100000)
            num == DDiv(DecimalFrom(numerator), DecimalFrom(divisor))
            den == DDiv(ONE_THOUSAND, DecimalFrom(divisor))
        IN  Ok(<<unwrap_or_default(to_unsigned(num)), unwrap_or_default(to_unsigned(den))>>)

MAX_DENOMINATOR == 1000

\* u64 saturating arithmetic; the saturation point lies above every value
\* the bounded inputs produce.
saturating_mul(x, y) == x * y
saturating_add(x, y) == x + y

\* State of the continued-fraction loop before its first iteration.
simplify_start(fractional_part) ==
    [a |-> fractional_part, num |-> 1, den |-> 0, num_prev |-> 0, den_prev |-> 1,
     exit |-> "none"]

\* simplify_step testing the current denominator instead of the next one.
simplify_step_late_check(st, epsilon) ==
    LET a_floor == DFloor(st.a)
        whole == to_unsigned(DecimalFrom(a_floor))
    IN  IF ~whole.some THEN [st EXCEPT !.exit = "overflow"]
        ELSE
            LET num_next == saturating_add(saturating_mul(whole.v, st.num), st.num_prev)
                den_next == saturating_add(saturating_mul(whole.v, st.den), st.den_prev)
                remainder == DSub(st.a, DecimalFrom(a_floor))
            IN  IF st.den > MAX_DENOMINATOR THEN [st EXCEPT !.exit = "max_denominator"]
                ELSE IF DLt(remainder, epsilon)
                THEN [a |-> st.a, num |-> num_next, den |-> den_next,
                      num_prev |-> st.num, den_prev |-> st.den, exit |-> "epsilon"]
                ELSE [a |-> DDiv(ONE, remainder), num |-> num_next, den |-> den_next,
                      num_prev |-> st.num, den_prev |-> st.den, exit |-> "none"]

\* One iteration of the loop.  exit names the break that ended the loop:
\* "overflow" (floor not a u64), "max_denominator", "epsilon"; "none" while
\* the loop goes on.
simplify_step(st, epsilon) ==
    LET a_floor == DFloor(st.a)
        whole == to_unsigned(DecimalFrom(a_floor))
    IN  IF ~whole.some THEN [st EXCEPT !.exit = "overflow"]
        ELSE
            LET num_next == saturating_add(saturating_mul(whole.v, st.num), st.num_prev)
                den_next == saturating_add(saturating_mul(whole.v, st.den), st.den_prev)
                remainder == DSub(st.a, DecimalFrom(a_floor))
            IN  IF den_next > MAX_DENOMINATOR THEN [st EXCEPT !.exit = "max_denominator"]
                ELSE IF DLt(remainder, epsilon)
                THEN [a |-> st.a, num |-> num_next, den |-> den_next,
                      num_prev |-> st.num, den_prev |-> st.den, exit |-> "epsilon"]
                ELSE [a |-> DDiv(ONE, remainder), num |-> num_next, den |-> den_next,
                      num_prev |-> st.num, den_prev |-> st.den, exit |-> "none"]

RECURSIVE simplify_loop(_, _)
simplify_loop(st, epsilon) ==
    IF st.exit # "none" THEN st ELSE simplify_loop(simplify_step(st, epsilon), epsilon)

\* decimal_to_fractional_simplify with the epsilon constant 0.05.
decimal_to_fractional_simplify_coarse(value) ==
    IF DLe(value, ONE) THEN Err("InvalidDecimal")
    ELSE
        LET fractional_part == DSub(value, ONE)
            epsilon == DMin(DSub(value, ONE), Dec(5, 2))
            last == simplify_loop(simplify_start(fractional_part), epsilon)
            den == IF last.den = 0 THEN 1 ELSE last.den
        IN  Ok(<<last.num, den>>)

\* Continued-fraction strategy.  The final casts `as u32` keep every value
\* the bounded inputs produce.
decimal_to_fractional_simplify(value) ==
    IF DLe(value, ONE) THEN Err("InvalidDecimal")
    ELSE
        LET fractional_part == DSub(value, ONE)
            epsilon == DMin(DSub(value, ONE), Dec(1, 2))
            last == simplify_loop(simplify_start(fractional_part), epsilon)
            den == IF last.den = 0 THEN 1 ELSE last.den
        IN  Ok(<<last.num, den>>)

\* decimal_to_fractional_custom looking up only under the Simplify strategy.
decimal_to_fractional_custom_plain_first(value, cfg) ==
    LET ret == CASE cfg.lookup_tables_variant = "Basic" ->
                        MapGet(get_decimal_to_fraction_map, value)
                 [] cfg.lookup_tables_variant = "Extended" ->
                        OptionOr(MapGet(get_decimal_to_fraction_map, value),
                                 MapGet(get_decimal_to_fraction_extended_map, value))
                 [] OTHER -> None
    IN  IF cfg.fraction_strategy = "Plain" THEN decimal_to_fractional_plain(value, cfg)
        ELSE IF ret.some THEN Ok(ret.v)
        ELSE decimal_to_fractional_simplify(value)

decimal_to_fractional_custom(value, cfg) ==
    LET ret == CASE cfg.lookup_tables_variant = "Basic" ->
                        MapGet(get_decimal_to_fraction_map, value)
                 [] cfg.lookup_tables_variant = "Extended" ->
                        OptionOr(MapGet(get_decimal_to_fraction_map, value),
                                 MapGet(get_decimal_to_fraction_extended_map, value))
                 [] OTHER -> None
    IN  IF ret.some THEN Ok(ret.v)
        ELSE IF cfg.fraction_strategy = "Plain" THEN decimal_to_fractional_plain(value, cfg)
        ELSE decimal_to_fractional_simplify(value)

decimal_to_fractional_custom_tables(value, cfg) ==
    CASE cfg.lookup_tables_variant = "Basic" -> {"DECIMAL_TO_FRACTION"}
      [] cfg.lookup_tables_variant = "Extended" ->
            {"DECIMAL_TO_FRACTION", "DECIMAL_TO_FRACTION_EXTENDED"}
      [] OTHER -> {}

\* Default-parameter entry point.
decimal_to_fractional(value) ==
    decimal_to_fractional_custom(value, DEFAULT_CONVERSION_CONFIG)

\* american_to_fractional_custom going straight to the formula.
american_to_fractional_custom_unlooked(value, cfg) ==
    LET decimal == american_to_decimal_inner(value)
    IN  IF ~decimal.ok THEN decimal
        ELSE decimal_to_fractional(decimal.val)

american_to_fractional_custom(value, cfg) ==
    LET ret == CASE cfg.lookup_tables_variant = "Basic" ->
                        MapGet(get_american_to_fraction_map, value)
                 [] cfg.lookup_tables_variant = "Extended" ->
                        OptionOr(MapGet(get_american_to_fraction_map, value),
                                 MapGet(get_american_to_fraction_extended_map, value))
                 [] OTHER -> None
        decimal == american_to_decimal_inner(value)
    IN  IF ret.some THEN Ok(ret.v)
        ELSE IF ~decimal.ok THEN decimal
        ELSE decimal_to_fractional(decimal.val)

american_to_fractional_custom_tables(value, cfg) ==
    LET looked == CASE cfg.lookup_tables_variant = "Basic" -> {"AMERICAN_TO_FRACTION"}
                    [] cfg.lookup_tables_variant = "Extended" ->
                        {"AMERICAN_TO_FRACTION", "AMERICAN_TO_FRACTION_EXTENDED"}
                    [] OTHER -> {}
        hit == cfg.lookup_tables_variant # "None"
               /\ (value \in DOMAIN get_american_to_fraction_map
                   \/ (cfg.lookup_tables_variant = "Extended"
                       /\ value \in DOMAIN get_american_to_fraction_extended_map))
    IN  IF hit \/ value = 0 THEN looked
        ELSE looked \cup decimal_to_fractional_custom_tables(
                            american_to_decimal_inner(value).val, DEFAULT_CONVERSION_CONFIG)

\* decimal_to_american_custom sending 2.0 into the favourite branch.
decimal_to_american_custom_strict(decimal, cfg) ==
    IF DGt(decimal, TWO) THEN
        LET r == RoundedHundredfoldToI32(1, DSub(decimal, ONE), cfg.rounding_strategy)
        IN  IF r.some THEN Ok(normalize_american_odds(r.v)) ELSE Err("DecimalOverflow")
    ELSE IF DGt(decimal, ONE) THEN
        LET r == RoundedHundredfoldToI32(-1, DDiv(ONE, DSub(decimal, ONE)),
                                         cfg.rounding_strategy)
        IN  IF r.some THEN Ok(r.v) ELSE Err("DecimalOverflow")
    ELSE Err("InvalidDecimal")

\* decimal_to_american_custom dropping the sign of the favourite branch.
decimal_to_american_custom_unsigned(decimal, cfg) ==
    IF DGe(decimal, TWO) THEN
        LET r == RoundedHundredfoldToI32(1, DSub(decimal, ONE), cfg.rounding_strategy)
        IN  IF r.some THEN Ok(normalize_american_odds(r.v)) ELSE Err("DecimalOverflow")
    ELSE IF DGt(decimal, ONE) THEN
        LET r == RoundedHundredfoldToI32(1, DDiv(ONE, DSub(decimal, ONE)),
                                         cfg.rounding_strategy)
        IN  IF r.some THEN Ok(r.v) ELSE Err("DecimalOverflow")
    ELSE Err("InvalidDecimal")

decimal_to_american_custom(decimal, cfg) ==
    IF DGe(decimal, TWO) THEN
        LET r == RoundedHundredfoldToI32(1, DSub(decimal, ONE), cfg.rounding_strategy)
        IN  IF r.some THEN Ok(normalize_american_odds(r.v)) ELSE Err("DecimalOverflow")
    ELSE IF DGt(decimal, ONE) THEN
        LET r == RoundedHundredfoldToI32(-1, DDiv(ONE, DSub(decimal, ONE)),
                                         cfg.rounding_strategy)
        IN  IF r.some THEN Ok(r.v) ELSE Err("DecimalOverflow")
    ELSE Err("InvalidDecimal")

fractional_to_decimal(num, den) ==
    IF den = 0 THEN Err("DenominatorZero")
    ELSE Ok(DAdd(DDiv(DecimalFrom(num), DecimalFrom(den)), ONE))

\* fractional_to_american_custom handing den/num + 1 to the decimal conversion.
fractional_to_american_custom_inverted(num, den, cfg) ==
    IF den = 0 THEN Err("DenominatorZero")
    ELSE IF num = 0 THEN Err("InvalidDecimal")
    ELSE decimal_to_american_custom(
             DAdd(DDiv(DecimalFrom(den), DecimalFrom(num)), ONE), cfg)

fractional_to_american_custom(num, den, cfg) ==
    IF den = 0 THEN Err("DenominatorZero")
    ELSE LET decimal == DAdd(DDiv(DecimalFrom(num), DecimalFrom(den)), ONE)
         IN  decimal_to_american_custom(decimal, cfg)
----------------------------------------------------------------------------
(* The Decimal functions at the ends of Decimal's range.                   *)
(*                                                                         *)
(* A Decimal is a 96-bit integer scaled by 10^-s, 0 <= s <= 28; its        *)
(* arithmetic operators panic when a result leaves that range.  The values *)
(* that bring this about are wider than the model's integers, so they are  *)
(* held in the form [kind, k, e]:                                          *)
(*     kind = "huge":      the integer k * 10^e,                           *)
(*     kind = "near_one":  1 + k * 10^-e, with k a divisor of 1000,        *)
(* for a digit k and 20 <= e <= 28, and the functions below follow the     *)
(* source line by line on that form.                                       *)

\* Decimal::MAX = 79228162514264337593543950335, in units of 10^20.
DECIMAL_MAX_TOP == 792281625
\* The largest scale of a Decimal.
MAX_SCALE == 28

\* m * 10^e > Decimal::MAX, for an integer 1 <= m < 10^9.
ExceedsDecimalMax(m, e) ==
    IF e > MAX_SCALE THEN TRUE
    ELSE IF e < 20 THEN FALSE
    ELSE m > DECIMAL_MAX_TOP \div Pow10(e - 20)

\* The panic of a Decimal operator whose result is out of range.
Panic(message) == [ok |-> FALSE, err |-> "panic: " \o message]

decimal_to_american_custom_extreme(decimal, cfg) ==
    IF decimal.kind = "huge" THEN
        \* decimal >= TWO.  (decimal - ONE) * ONE_HUNDRED is k * 10^(e+2) - 100;
        \* when it is a Decimal it is above 10^22, and to_i32() is None.
        IF ExceedsDecimalMax(decimal.k, decimal.e + 2)
        THEN Panic("Multiplication overflowed")
        ELSE Err("DecimalOverflow")
    ELSE
        \* ONE < decimal < TWO.  -ONE_HUNDRED / (decimal - ONE) is
        \* -(1000 / k) * 10^(e-1); when it is a Decimal, to_i32() is None.
        IF ExceedsDecimalMax(1000 \div decimal.k, decimal.e - 1)
        THEN Panic("Division overflowed")
        ELSE Err("DecimalOverflow")

decimal_to_fractional_plain_extreme(value, cfg) ==
    LET \* (value - ONE) * ONE_THOUSAND rounded, then to_u64().unwrap_or_default():
        \* above u64 for a huge value (None, hence 0), and the rounding of a
        \* positive value below 1/2 for a value near one.
        numerator ==
            IF value.kind = "huge" THEN unwrap_or_default(None)
            ELSE unwrap_or_default(to_unsigned(DecimalFrom(
                     round_dp_with_strategy(Dec(1, 3), cfg.rounding_strategy))))
        divisor == gcd(numerator, 100000)
        num == DDiv(DecimalFrom(numerator), DecimalFrom(divisor))
        den == DDiv(ONE_THOUSAND, DecimalFrom(divisor))
    IN  IF value.kind = "huge" /\ ExceedsDecimalMax(value.k, value.e + 3)
        THEN Panic("Multiplication overflowed")
        ELSE Ok(<<unwrap_or_default(to_unsigned(num)),
                  unwrap_or_default(to_unsigned(den))>>)

decimal_to_fractional_simplify_extreme(value) ==
    IF value.kind = "huge" THEN
        \* a_floor.to_u64() is None in the first round: the loop is left with
        \* (num, den) = (1, 0), and den becomes 1.
        Ok(<<1, 1>>)
    ELSE
        \* First round: whole = 0, (num, den) = (0, 1), the remainder equals
        \* epsilon, a = 10^e / k.  Second round: a is above u64 or gives a
        \* denominator above MAX_DENOMINATOR; the loop is left with (0, 1).
        Ok(<<0, 1>>)

----------------------------------------------------------------------------
(* src/src/odds.rs: the Odds wrapper.                                      *)

to_american_custom(self, cfg) ==
    CASE self.tag = "American" -> Ok(self.value)
      [] self.tag = "Decimal" -> decimal_to_american_custom(self.value, cfg)
      [] self.tag = "Fractional" ->
            fractional_to_american_custom(self.num, self.den, cfg)

to_fractional_custom(self, cfg) ==
    CASE self.tag = "American" -> american_to_fractional_custom(self.value, cfg)
      [] self.tag = "Decimal" -> decimal_to_fractional_custom(self.value, cfg)
      [] self.tag = "Fractional" ->
            IF self.den > 0 THEN Ok(<<self.num, self.den>>)
            ELSE Err("DenominatorZero")

to_fractional_custom_tables(self, cfg) ==
    CASE self.tag = "American" -> american_to_fractional_custom_tables(self.value, cfg)
      [] self.tag = "Decimal" -> decimal_to_fractional_custom_tables(self.value, cfg)
      [] OTHER -> {}

\* to_decimal_custom sending fractional odds through the fraction table.
to_decimal_custom_tabulated(self, cfg) ==
    CASE self.tag = "American" -> american_to_decimal_custom(self.value, cfg)
      [] self.tag = "Decimal" ->
            IF DGt(self.value, ONE) THEN Ok(self.value) ELSE Err("InvalidDecimal")
      [] self.tag = "Fractional" ->
            LET keys == {k \in DOMAIN get_decimal_to_fraction_map :
                            get_decimal_to_fraction_map[k] = <<self.num, self.den>>}
            IN  IF cfg.lookup_tables_variant # "None" /\ keys # {}
                THEN Ok(CHOOSE k \in keys : TRUE)
                ELSE fractional_to_decimal(self.num, self.den)

to_decimal_custom(self, cfg) ==
    CASE self.tag = "American" -> american_to_decimal_custom(self.value, cfg)
      [] self.tag = "Decimal" ->
            IF DGt(self.value, ONE) THEN Ok(self.value) ELSE Err("InvalidDecimal")
      [] self.tag = "Fractional" -> fractional_to_decimal(self.num, self.den)

to_decimal_custom_tables(self, cfg) ==
    CASE self.tag = "American" -> american_to_decimal_custom_tables(self.value, cfg)
      [] OTHER -> {}

\* format!("{num}/{den}")
format_fraction(num, den) == ToString(num) \o "/" \o ToString(den)

to_fractional_str_custom(self, cfg) ==
    LET fraction == to_fractional_custom(self, cfg)
    IN  IF fraction.ok THEN Ok(format_fraction(fraction.val[1], fraction.val[2]))
        ELSE fraction

\* Decimal::round_dp_with_strategy(2, strategy).  The value is split as
\* floor(x) + f; 100 * floor(x) is an even integer, so rounding the
\* hundredfold of x is rounding the hundredfold of f.
round_dp_with_strategy_2(x, strategy) ==
    LET whole == x[1] \div x[2]
        cents == round_dp_with_strategy(Norm(<<100 * (x[1] % x[2]), x[2]>>), strategy)
    IN  DAdd(DecimalFrom(whole), Norm(<<cents, 100>>))

\* format!("{:.2}", x) of a Decimal with at most two decimal places: sign,
\* integer part, point, two digits.
format_2(x) ==
    LET a == Abs(x[1])
        whole == a \div x[2]
        cents == (100 * (a % x[2])) \div x[2]
    IN  (IF x[1] < 0 THEN "-" ELSE "")
            \o ToString(whole) \o "." \o ToString(cents \div 10)
            \o ToString(cents % 10)

\* to_decimal_str_custom rounding with the configured strategy.
to_decimal_str_custom_configured(self, cfg) ==
    LET decimal == to_decimal_custom(self, cfg)
    IN  IF decimal.ok
        THEN Ok(format_2(round_dp_with_strategy_2(decimal.val, cfg.rounding_strategy)))
        ELSE decimal

to_decimal_str_custom(self, cfg) ==
    LET decimal == to_decimal_custom(self, cfg)
    IN  IF decimal.ok
        THEN Ok(format_2(round_dp_with_strategy_2(decimal.val, "MidpointAwayFromZero")))
        ELSE decimal

----------------------------------------------------------------------------
(* Inputs.                                                                 *)

American(i) == [tag |-> "American", value |-> i]
Decimal(d) == [tag |-> "Decimal", value |-> d]
Fractional(n, d) == [tag |-> "Fractional", num |-> n, den |-> d]

AmericanInputs ==
    (-MaxAmerican .. MaxAmerican)
        \cup DOMAIN get_american_to_fraction_map
        \cup DOMAIN get_american_to_decimal_map
        \cup {-50000, -1000, -299, 1001, 50000}

DecimalInputs ==
    {Dec(m, 3) : m \in (1000 - BelowOneMilli) .. MaxMilli}
        \cup {Dec(10000 + k, 4) : k \in 1 .. MaxTenThousandths}
        \cup DOMAIN get_decimal_to_fraction_map
        \cup DOMAIN get_decimal_to_fraction_extended_map
        \cup {Dec(-5, 0), Dec(0, 0), Dec(13337, 4), Dec(41, 1), Dec(1005, 1),
              Dec(100000004, 8)}

\* Fractional inputs cover 0 .. MaxNum over 0 .. MaxDen (a zero denominator
\* included), plus long prices and fractions whose American value leaves i32.
FractionalInputs ==
    ((0 .. MaxNum) \X (0 .. MaxDen))
        \cup {<<1, 20>>, <<1, 1000>>, <<101, 304>>, <<999, 1000>>, <<1001, 1000>>,
              <<500, 1>>, <<30000000, 1>>, <<1, 30000000>>}

NoResult == [ok |-> FALSE, err |-> "none"]

Init ==
    /\ \/ \E i \in AmericanInputs : odds = American(i)
       \/ \E d \in DecimalInputs : odds = Decimal(d)
       \/ \E f \in FractionalInputs : odds = Fractional(f[1], f[2])
    /\ config \in ConversionConfig
    /\ call = "none"
    /\ result = NoResult
    /\ inited = {}
    /\ once = OnceInit

----------------------------------------------------------------------------
(* One action per public function.                                         *)

NormalizeAmericanOdds ==
    /\ call = "none"
    /\ odds.tag = "American"
    /\ call' = "normalize_american_odds"
    /\ result' = Ok(normalize_american_odds(odds.value))
    /\ UNCHANGED <<odds, config, inited, once>>

AmericanToDecimalCustom ==
    /\ call = "none"
    /\ odds.tag = "American"
    /\ call' = "american_to_decimal_custom"
    /\ result' = american_to_decimal_custom(odds.value, config)
    /\ inited' = inited \cup american_to_decimal_custom_tables(odds.value, config)
    /\ UNCHANGED <<odds, config, once>>

AmericanToFractionalCustom ==
    /\ call = "none"
    /\ odds.tag = "American"
    /\ call' = "american_to_fractional_custom"
    /\ result' = american_to_fractional_custom(odds.value, config)
    /\ inited' = inited \cup american_to_fractional_custom_tables(odds.value, config)
    /\ UNCHANGED <<odds, config, once>>

DecimalToFractionalCustom ==
    /\ call = "none"
    /\ odds.tag = "Decimal"
    /\ call' = "decimal_to_fractional_custom"
    /\ result' = decimal_to_fractional_custom(odds.value, config)
    /\ inited' = inited \cup decimal_to_fractional_custom_tables(odds.value, config)
    /\ UNCHANGED <<odds, config, once>>

DecimalToFractionalPlain ==
    /\ call = "none"
    /\ odds.tag = "Decimal"
    /\ call' = "decimal_to_fractional_plain"
    /\ result' = decimal_to_fractional_plain(odds.value, config)
    /\ UNCHANGED <<odds, config, inited, once>>

DecimalToFractionalSimplify ==
    /\ call = "none"
    /\ odds.tag = "Decimal"
    /\ call' = "decimal_to_fractional_simplify"
    /\ result' = decimal_to_fractional_simplify(odds.value)
    /\ UNCHANGED <<odds, config, inited, once>>

DecimalToAmericanCustom ==
    /\ call = "none"
    /\ odds.tag = "Decimal"
    /\ call' = "decimal_to_american_custom"
    /\ result' = decimal_to_american_custom(odds.value, config)
    /\ UNCHANGED <<odds, config, inited, once>>

FractionalToDecimal ==
    /\ call = "none"
    /\ odds.tag = "Fractional"
    /\ call' = "fractional_to_decimal"
    /\ result' = fractional_to_decimal(odds.num, odds.den)
    /\ UNCHANGED <<odds, config, inited, once>>

FractionalToAmericanCustom ==
    /\ call = "none"
    /\ odds.tag = "Fractional"
    /\ call' = "fractional_to_american_custom"
    /\ result' = fractional_to_american_custom(odds.num, odds.den, config)
    /\ UNCHANGED <<odds, config, inited, once>>

Next ==
    \/ NormalizeAmericanOdds
    \/ AmericanToDecimalCustom
    \/ AmericanToFractionalCustom
    \/ DecimalToFractionalCustom
    \/ DecimalToFractionalPlain
    \/ DecimalToFractionalSimplify
    \/ DecimalToAmericanCustom
    \/ FractionalToDecimal
    \/ FractionalToAmericanCustom

Spec == Init /\ [][Next]_vars

----------------------------------------------------------------------------
(* The methods of Odds, one call per behaviour.                            *)

\* Decimal inputs of the wrapper: the multiples of 0.005 among DecimalInputs,
\* every table key, and the inputs given with more decimals.
OddsDecimalInputs ==
    {d \in DecimalInputs :
        \/ 200 % d[2] = 0
        \/ d \in DOMAIN get_decimal_to_fraction_map
        \/ d \in DOMAIN get_decimal_to_fraction_extended_map
        \/ d[2] > 1000}
        \cup {Dec(13333, 4)}

InitOdds ==
    /\ \/ \E i \in AmericanInputs : odds = American(i)
       \/ \E d \in OddsDecimalInputs : odds = Decimal(d)
       \/ \E f \in FractionalInputs : odds = Fractional(f[1], f[2])
    /\ config \in ConversionConfig
    /\ call = "none"
    /\ result = NoResult
    /\ inited = {}
    /\ once = OnceInit

ToAmericanCustom ==
    /\ call = "none"
    /\ call' = "to_american_custom"
    /\ result' = to_american_custom(odds, config)
    /\ UNCHANGED <<odds, config, inited, once>>

ToFractionalCustom ==
    /\ call = "none"
    /\ call' = "to_fractional_custom"
    /\ result' = to_fractional_custom(odds, config)
    /\ inited' = inited \cup to_fractional_custom_tables(odds, config)
    /\ UNCHANGED <<odds, config, once>>

ToDecimalCustom ==
    /\ call = "none"
    /\ call' = "to_decimal_custom"
    /\ result' = to_decimal_custom(odds, config)
    /\ inited' = inited \cup to_decimal_custom_tables(odds, config)
    /\ UNCHANGED <<odds, config, once>>

ToFractionalStrCustom ==
    /\ call = "none"
    /\ call' = "to_fractional_str_custom"
    /\ result' = to_fractional_str_custom(odds, config)
    /\ inited' = inited \cup to_fractional_custom_tables(odds, config)
    /\ UNCHANGED <<odds, config, once>>

ToDecimalStrCustom ==
    /\ call = "none"
    /\ call' = "to_decimal_str_custom"
    /\ result' = to_decimal_str_custom(odds, config)
    /\ inited' = inited \cup to_decimal_custom_tables(odds, config)
    /\ UNCHANGED <<odds, config, once>>

NextOdds ==
    \/ ToAmericanCustom
    \/ ToFractionalCustom
    \/ ToDecimalCustom
    \/ ToFractionalStrCustom
    \/ ToDecimalStrCustom

SpecOdds == InitOdds /\ [][NextOdds]_vars

----------------------------------------------------------------------------
(* The Decimal functions on decimals at the ends of the type's range.      *)

HugeDecimals ==
    {[kind |-> "huge", k |-> k, e |-> e] :
        k \in 1 .. 9, e \in (MAX_SCALE - ExtremeSpan) .. MAX_SCALE}
NearOneDecimals ==
    {[kind |-> "near_one", k |-> k, e |-> e] :
        k \in {1, 2, 4, 5, 8}, e \in (MAX_SCALE - ExtremeSpan) .. MAX_SCALE}

\* The huge values that are Decimals, and the values near one.
ExtremeDecimalInputs ==
    {x \in HugeDecimals : ~ExceedsDecimalMax(x.k, x.e)} \cup NearOneDecimals

InitExtreme ==
    /\ \E x \in ExtremeDecimalInputs : odds = Decimal(x)
    /\ config \in ConversionConfig
    /\ call = "none"
    /\ result = NoResult
    /\ inited = {}
    /\ once = OnceInit

DecimalToAmericanCustomExtreme ==
    /\ call = "none"
    /\ call' = "decimal_to_american_custom"
    /\ result' = decimal_to_american_custom_extreme(odds.value, config)
    /\ UNCHANGED <<odds, config, inited, once>>

DecimalToFractionalPlainExtreme ==
    /\ call = "none"
    /\ call' = "decimal_to_fractional_plain"
    /\ result' = decimal_to_fractional_plain_extreme(odds.value, config)
    /\ UNCHANGED <<odds, config, inited, once>>

DecimalToFractionalSimplifyExtreme ==
    /\ call = "none"
    /\ call' = "decimal_to_fractional_simplify"
    /\ result' = decimal_to_fractional_simplify_extreme(odds.value)
    /\ UNCHANGED <<odds, config, inited, once>>

NextExtreme ==
    \/ DecimalToAmericanCustomExtreme
    \/ DecimalToFractionalPlainExtreme
    \/ DecimalToFractionalSimplifyExtreme

SpecExtreme == InitExtreme /\ [][NextExtreme]_vars

----------------------------------------------------------------------------
(* Several calls in one process: after a call has returned the caller      *)
(* makes another one, with the tables the earlier calls initialised.       *)

HistoryAmerican == {-150, 0, 50, 250}
HistoryDecimal == {Dec(5, 1), Dec(1001, 3), Dec(167, 2), Dec(25, 1)}
HistoryFractional == {<<2, 3>>, <<1, 0>>}
HistoryConfigs ==
    {cfg \in ConversionConfig : cfg.rounding_strategy = "MidpointAwayFromZero"}

\* o is one of the values the calls of a history are made on.
HistoryOdds(o) ==
    \/ \E i \in HistoryAmerican : o = American(i)
    \/ \E d \in HistoryDecimal : o = Decimal(d)
    \/ \E f \in HistoryFractional : o = Fractional(f[1], f[2])

InitHistory ==
    /\ HistoryOdds(odds)
    /\ config \in HistoryConfigs
    /\ call = "none"
    /\ result = NoResult
    /\ inited = {}
    /\ once = OnceInit

\* The caller goes on to its next call, on a value and with a configuration
\* of its choice; the statics stay as the calls so far left them.
NextCall ==
    /\ call # "none"
    /\ call' = "none"
    /\ result' = NoResult
    /\ HistoryOdds(odds')
    /\ config' \in HistoryConfigs
    /\ UNCHANGED <<inited, once>>

NextHistory ==
    \/ Next
    \/ NextOdds
    \/ NextCall

SpecHistory == InitHistory /\ [][NextHistory]_vars

----------------------------------------------------------------------------
(* Threads reaching the accessors of the lookup tables.                    *)

InitOnce ==
    /\ odds = American(100)
    /\ config = default
    /\ call = "none"
    /\ result = NoResult
    /\ inited = {}
    /\ once = OnceInit

\* A thread calls an accessor: X.get_or_init(|| { let mut m = HashMap::new(); ...
Access(t, table) ==
    /\ once.pc[t].at = "idle"
    /\ LET entry == get_or_init(table \in inited, Running(table))
       IN  once' =
             CASE entry = "return" ->
                    [once EXCEPT !.seen[t][table] = once.value[table]]
               [] entry = "initialize" ->
                    [once EXCEPT !.pc[t] = [at |-> "building", table |-> table, m |-> 0],
                                 !.builds[table] = @ + 1]
               [] entry = "block" ->
                    [once EXCEPT !.pc[t] = [at |-> "blocked", table |-> table, m |-> 0]]
    /\ UNCHANGED <<odds, config, call, result, inited>>

\* The initializer inserts further entries into its local map: m.insert(...)
Insert(t) ==
    /\ once.pc[t].at = "building"
    /\ once.pc[t].m < Full(once.pc[t].table)
    /\ once' = [once EXCEPT !.pc[t].m =
                    IF @ + InsertChunk < Full(once.pc[t].table) THEN @ + InsertChunk
                    ELSE Full(once.pc[t].table)]
    /\ UNCHANGED <<odds, config, call, result, inited>>

\* The initializer returns m: the cell stores it and get_or_init returns it.
Finish(t) ==
    /\ once.pc[t].at = "building"
    /\ once.pc[t].m = Full(once.pc[t].table)
    /\ once' = [once EXCEPT !.value[once.pc[t].table] = once.pc[t].m,
                            !.seen[t][once.pc[t].table] = once.pc[t].m,
                            !.pc[t] = Idle]
    /\ inited' = inited \cup {once.pc[t].table}
    /\ UNCHANGED <<odds, config, call, result>>

\* A waiting thread finds the cell complete and returns the stored map.
Wake(t) ==
    /\ once.pc[t].at = "blocked"
    /\ once.pc[t].table \in inited
    /\ once' = [once EXCEPT !.seen[t][once.pc[t].table] = once.value[once.pc[t].table],
                            !.pc[t] = Idle]
    /\ UNCHANGED <<odds, config, call, result, inited>>

NextOnce ==
    \/ \E t \in Threads, table \in OnceTables : Access(t, table)
    \/ \E t \in Threads : Insert(t)
    \/ \E t \in Threads : Finish(t)
    \/ \E t \in Threads : Wake(t)

SpecOnce == InitOnce /\ [][NextOnce]_vars

----------------------------------------------------------------------------
(* The builder methods of ConversionConfig.  config holds the default      *)
(* configuration a chain starts from; every builder takes its receiver by  *)
(* value and returns a copy, which the next builder of the chain receives. *)

InitConfig ==
    /\ odds = American(100)
    /\ config = default
    /\ call = "none"
    /\ result = NoResult
    /\ inited = {}
    /\ once = OnceInit

\* The configuration the next builder of the chain is called on.
receiver == IF call = "none" THEN config ELSE result.val

NoLookup ==
    /\ call' = "no_lookup"
    /\ result' = Ok(no_lookup(receiver))
    /\ UNCHANGED <<odds, config, inited, once>>

ExtendedLookup ==
    /\ call' = "extended_lookup"
    /\ result' = Ok(extended_lookup(receiver))
    /\ UNCHANGED <<odds, config, inited, once>>

PlainFractionStrategy ==
    /\ call' = "plain_fraction_strategy"
    /\ result' = Ok(plain_fraction_strategy(receiver))
    /\ UNCHANGED <<odds, config, inited, once>>

SetFractionStrategy ==
    \E strategy \in FractionStrategy :
        /\ call' = "fraction_strategy " \o strategy
        /\ result' = Ok(fraction_strategy(receiver, strategy))
        /\ UNCHANGED <<odds, config, inited, once>>

SetRoundingStrategy ==
    \E strategy \in RoundingStrategy :
        /\ call' = "rounding_strategy " \o strategy
        /\ result' = Ok(rounding_strategy(receiver, strategy))
        /\ UNCHANGED <<odds, config, inited, once>>

NextConfig ==
    \/ NoLookup
    \/ ExtendedLookup
    \/ PlainFractionStrategy
    \/ SetFractionStrategy
    \/ SetRoundingStrategy

SpecConfig == InitConfig /\ [][NextConfig]_vars

----------------------------------------------------------------------------
(* The loop of decimal_to_fractional_simplify, one iteration per step, on  *)
(* u64 values of their full width.                                         *)
(*                                                                         *)
(* A u64 and the integer part of a Decimal are wider than the model's      *)
(* integers: both are held as six limbs of 16 bits, least significant      *)
(* first (96 bits, the width of a Decimal's mantissa), and a u64 has limbs *)
(* 5 and 6 zero.  A Decimal is here [whole, frac]: its integer part in     *)
(* limbs and its fractional part as a rational, 0 <= frac < 1.             *)

LIMB == 65536

\* The limbs of an integer 0 <= n < 2^31.
Wide(n) == <<n % LIMB, n \div LIMB, 0, 0, 0, 0>>

\* u64::MAX
U64_MAX == <<LIMB - 1, LIMB - 1, LIMB - 1, LIMB - 1, 0, 0>>

\* The limbs, from limb i on, of w * s + carry for a factor 0 <= s < 2^15.
RECURSIVE wide_scale(_, _, _, _)
wide_scale(w, s, i, carry) ==
    IF i > Len(w) THEN <<>>
    ELSE LET t == w[i] * s + carry
         IN  <<t % LIMB>> \o wide_scale(w, s, i + 1, t \div LIMB)

\* The limbs, from limb i on, of x + y + carry.
RECURSIVE wide_sum(_, _, _, _)
wide_sum(x, y, i, carry) ==
    IF i > Len(x) THEN <<>>
    ELSE LET t == x[i] + y[i] + carry
         IN  <<t % LIMB>> \o wide_sum(x, y, i + 1, t \div LIMB)

\* The limbs, from limb i on, of w - 1 when limbs 1 .. i-1 of w are zero.
RECURSIVE wide_pred(_, _)
wide_pred(w, i) ==
    IF w[i] > 0 THEN <<w[i] - 1>> \o SubSeq(w, i + 1, Len(w))
    ELSE <<LIMB - 1>> \o wide_pred(w, i + 1)

wide_less(x, y) ==
    \E i \in 1 .. 6 : x[i] < y[i] /\ \A j \in (i + 1) .. 6 : x[j] = y[j]

\* Decimal::to_u64 of a non-negative integer.
to_u64(w) == IF w[5] = 0 /\ w[6] = 0 THEN Some(w) ELSE None

\* A result of u64 saturating arithmetic: u64::MAX when it left the type.
saturate(w) == IF to_u64(w).some THEN w ELSE U64_MAX

saturating_add_u64(x, y) == saturate(wide_sum(x, y, 1, 0))

\* x * y as the sum over the limbs l of y of x * l moved up by the limb's
\* position; a part that leaves u64 makes the product u64::MAX.
saturating_mul_u64(x, y) ==
    LET times_limb(l) ==
            saturate(wide_sum(
                wide_scale(saturate(wide_scale(x, l \div 2, 1, 0)), 2, 1, 0),
                IF l % 2 = 1 THEN x ELSE Wide(0), 1, 0))
        moved(w, k) ==
            LET e(i) == IF i > k /\ i - k <= 4 THEN w[i - k] ELSE 0
            IN  IF \E i \in (5 - k) .. 4 : w[i] # 0 THEN U64_MAX
                ELSE <<e(1), e(2), e(3), e(4), e(5), e(6)>>
        part(k) == moved(times_limb(y[k + 1]), k)
    IN  saturating_add_u64(saturating_add_u64(part(0), part(1)),
                           saturating_add_u64(part(2), part(3)))

\* `as u32` of a u64: its low 32 bits, as two limbs.
as_u32(w) == <<w[1], w[2]>>

\* The local variables of the loop before its first iteration, for
\* value > 1.  iterations counts the passes through the loop body, remainder
\* is the remainder of the last pass that computed one.
simplify_start_u64(value) ==
    [a |-> [whole |-> wide_pred(value.whole, 1), frac |-> value.frac],
     num |-> Wide(1), den |-> Wide(0), num_prev |-> Wide(0), den_prev |-> Wide(1),
     remainder |-> <<0, 1>>, iterations |-> 0, exit |-> "none"]

\* epsilon = (value - ONE).min(dec!(0.01))
simplify_epsilon(value) ==
    IF wide_pred(value.whole, 1) = Wide(0) THEN DMin(value.frac, Dec(1, 2))
    ELSE Dec(1, 2)

\* simplify_step_u64 accepting a remainder equal to epsilon.
simplify_step_u64_inclusive(st, epsilon) ==
    LET a_floor == st.a.whole
        whole == to_u64(a_floor)
        passed == [st EXCEPT !.iterations = @ + 1]
    IN  IF ~whole.some THEN [passed EXCEPT !.exit = "overflow"]
        ELSE
            LET num_next == saturating_add_u64(saturating_mul_u64(whole.v, st.num),
                                               st.num_prev)
                den_next == saturating_add_u64(saturating_mul_u64(whole.v, st.den),
                                               st.den_prev)
                remainder == st.a.frac
                shifted == [passed EXCEPT !.num = num_next, !.den = den_next,
                                          !.num_prev = st.num, !.den_prev = st.den,
                                          !.remainder = remainder]
            IN  IF wide_less(Wide(MAX_DENOMINATOR), den_next)
                THEN [passed EXCEPT !.exit = "max_denominator"]
                ELSE IF DLe(remainder, epsilon)
                THEN [shifted EXCEPT !.exit = "epsilon"]
                ELSE [shifted EXCEPT
                        !.a = [whole |-> Wide(remainder[2] \div remainder[1]),
                               frac |-> Norm(<<remainder[2] % remainder[1],
                                               remainder[1]>>)]]

\* simplify_step_u64 without the limit on the denominator.
simplify_step_u64_unlimited(st, epsilon) ==
    LET a_floor == st.a.whole
        whole == to_u64(a_floor)
        passed == [st EXCEPT !.iterations = @ + 1]
    IN  IF ~whole.some THEN [passed EXCEPT !.exit = "overflow"]
        ELSE
            LET num_next == saturating_add_u64(saturating_mul_u64(whole.v, st.num),
                                               st.num_prev)
                den_next == saturating_add_u64(saturating_mul_u64(whole.v, st.den),
                                               st.den_prev)
                remainder == st.a.frac
                shifted == [passed EXCEPT !.num = num_next, !.den = den_next,
                                          !.num_prev = st.num, !.den_prev = st.den,
                                          !.remainder = remainder]
            IN  IF DLt(remainder, epsilon)
                THEN [shifted EXCEPT !.exit = "epsilon"]
                ELSE [shifted EXCEPT
                        !.a = [whole |-> Wide(remainder[2] \div remainder[1]),
                               frac |-> Norm(<<remainder[2] % remainder[1],
                                               remainder[1]>>)]]

\* One pass through the loop body.
simplify_step_u64(st, epsilon) ==
    LET a_floor == st.a.whole
        whole == to_u64(a_floor)
        passed == [st EXCEPT !.iterations = @ + 1]
    IN  IF ~whole.some THEN [passed EXCEPT !.exit = "overflow"]
        ELSE
            LET num_next == saturating_add_u64(saturating_mul_u64(whole.v, st.num),
                                               st.num_prev)
                den_next == saturating_add_u64(saturating_mul_u64(whole.v, st.den),
                                               st.den_prev)
                remainder == st.a.frac
                shifted == [passed EXCEPT !.num = num_next, !.den = den_next,
                                          !.num_prev = st.num, !.den_prev = st.den,
                                          !.remainder = remainder]
            IN  IF wide_less(Wide(MAX_DENOMINATOR), den_next)
                THEN [passed EXCEPT !.exit = "max_denominator"]
                ELSE IF DLt(remainder, epsilon)
                THEN [shifted EXCEPT !.exit = "epsilon"]
                ELSE [shifted EXCEPT
                        !.a = [whole |-> Wide(remainder[2] \div remainder[1]),
                               frac |-> Norm(<<remainder[2] % remainder[1],
                                               remainder[1]>>)]]

\* 10^e as limbs.
RECURSIVE WidePow10(_)
WidePow10(e) == IF e = 0 THEN Wide(1) ELSE wide_scale(WidePow10(e - 1), 10, 1, 0)

\* The decimals the loop is run on: 1.000 .. 1 + LoopMilli/1000, the values
\* of the source's tests and comments, fractions with denominators above
\* 100, and values whose integer part is next to 2^32, 2^64 and 10^19.
LoopInputs ==
    {[whole |-> Wide(1), frac |-> Norm(<<m, 1000>>)] : m \in 0 .. LoopMilli}
        \cup {[whole |-> Wide(f[1]), frac |-> Norm(<<f[2], f[3]>>)] :
                f \in {<<0, 1, 2>>, <<1, 5, 10000>>, <<1, 13, 10000>>,
                       <<1, 333, 1000>>, <<1, 3337, 10000>>, <<1, 49, 100>>,
                       <<1, 33, 100>>, <<1, 4, 5>>, <<2, 0, 1>>, <<3, 1, 2>>,
                       <<4, 1, 10>>, <<11, 0, 1>>, <<100, 1, 2>>,
                       <<1, 101, 304>>, <<2, 1, 101>>, <<1, 201, 203>>,
                       <<858993461, 1, 5>>, <<1431655767, 3333, 10000>>}}
        \cup {[whole |-> w, frac |-> f] :
                w \in {<<1, 0, 1, 0, 0, 0>>, <<0, 0, 0, 0, 1, 0>>,
                       <<1, 0, 0, 0, 1, 0>>,
                       wide_sum(WidePow10(19), Wide(1), 1, 0),
                       wide_scale(WidePow10(19), 2, 1, 0)},
                f \in {<<0, 1>>, <<1, 2>>}}

InitLoop ==
    /\ \E x \in LoopInputs : odds = Decimal(x)
    /\ config = default
    /\ call = "none"
    /\ result = NoResult
    /\ inited = {}
    /\ once = OnceInit

\* The function up to the loop: the check of the argument and the locals.
SimplifyEnter ==
    /\ call = "none"
    /\ IF odds.value.whole = Wide(0)
          \/ (odds.value.whole = Wide(1) /\ odds.value.frac = <<0, 1>>)
       THEN /\ call' = "decimal_to_fractional_simplify"
            /\ result' = Err("InvalidDecimal")
       ELSE /\ call' = "loop"
            /\ result' = simplify_start_u64(odds.value)
    /\ UNCHANGED <<odds, config, inited, once>>

SimplifyIterate ==
    /\ call = "loop"
    /\ result.exit = "none"
    /\ result' = simplify_step_u64(result, simplify_epsilon(odds.value))
    /\ UNCHANGED <<odds, config, call, inited, once>>

\* After the loop: den == 0 becomes 1, and the casts to u32.
SimplifyReturn ==
    /\ call = "loop"
    /\ result.exit # "none"
    /\ call' = "decimal_to_fractional_simplify"
    /\ result' = Ok(<<as_u32(result.num),
                      as_u32(IF result.den = Wide(0) THEN Wide(1) ELSE result.den)>>)
    /\ UNCHANGED <<odds, config, inited, once>>

NextLoop ==
    \/ SimplifyEnter
    \/ SimplifyIterate
    \/ SimplifyReturn

SpecLoop == InitLoop /\ [][NextLoop]_vars

----------------------------------------------------------------------------
(* A fraction converted to a decimal and that decimal converted back by    *)
(* the simplify algorithm: two calls, the second on the result of the      *)
(* first.                                                                  *)

TripFractions ==
    ((1 .. MaxTripNum) \X (0 .. MaxTripDen))
        \cup {<<101, 304>>, <<201, 203>>, <<1, 1000>>, <<999, 1000>>, <<4000000, 7>>}

InitTrip ==
    /\ \E f \in TripFractions : odds = Fractional(f[1], f[2])
    /\ config = default
    /\ call = "none"
    /\ result = NoResult
    /\ inited = {}
    /\ once = OnceInit

\* The caller passes the decimal it got on to decimal_to_fractional_simplify.
DecimalToFractionalSimplifyOfResult ==
    /\ call = "fractional_to_decimal"
    /\ result.ok
    /\ call' = "decimal_to_fractional_simplify"
    /\ result' = decimal_to_fractional_simplify(result.val)
    /\ UNCHANGED <<odds, config, inited, once>>

NextTrip ==
    \/ FractionalToDecimal
    \/ DecimalToFractionalSimplifyOfResult

SpecTrip == InitTrip /\ [][NextTrip]_vars

----------------------------------------------------------------------------
(* src/src/lookup_funcs.rs: the manual lookups, one call per behaviour.    *)

lookup_decimal_to_fraction_with_config(value, cfg) ==
    LET frac == MapGet(get_decimal_to_fraction_map, value)
    IN  IF ~frac.some /\ cfg.lookup_tables_variant = "Extended"
        THEN MapGet(get_decimal_to_fraction_extended_map, value)
        ELSE frac

lookup_american_to_fraction_with_config(value, cfg) ==
    LET frac == MapGet(get_american_to_fraction_map, value)
    IN  IF ~frac.some /\ cfg.lookup_tables_variant = "Extended"
        THEN MapGet(get_american_to_fraction_extended_map, value)
        ELSE frac

\* The accessors a manual lookup goes through: the basic one always, the
\* extended one after a miss under the Extended variant.
LookupDecimalToFractionWithConfig ==
    /\ call = "none"
    /\ odds.tag = "Decimal"
    /\ call' = "lookup_decimal_to_fraction_with_config"
    /\ result' = lookup_decimal_to_fraction_with_config(odds.value, config)
    /\ inited' = inited \cup {"DECIMAL_TO_FRACTION"} \cup
            (IF odds.value \notin DOMAIN get_decimal_to_fraction_map
                /\ config.lookup_tables_variant = "Extended"
             THEN {"DECIMAL_TO_FRACTION_EXTENDED"} ELSE {})
    /\ UNCHANGED <<odds, config, once>>

LookupAmericanToFractionWithConfig ==
    /\ call = "none"
    /\ odds.tag = "American"
    /\ call' = "lookup_american_to_fraction_with_config"
    /\ result' = lookup_american_to_fraction_with_config(odds.value, config)
    /\ inited' = inited \cup {"AMERICAN_TO_FRACTION"} \cup
            (IF odds.value \notin DOMAIN get_american_to_fraction_map
                /\ config.lookup_tables_variant = "Extended"
             THEN {"AMERICAN_TO_FRACTION_EXTENDED"} ELSE {})
    /\ UNCHANGED <<odds, config, once>>

NextLookup ==
    \/ LookupDecimalToFractionWithConfig
    \/ LookupAmericanToFractionWithConfig

SpecLookup == Init /\ [][NextLookup]_vars

----------------------------------------------------------------------------
(* src/src/distance.rs: RaceDistance::from_yards, one call per behaviour.  *)
(* u32 division and remainder cannot overflow, so the model's integers     *)
(* stand for the u32 values up to 2^31 - 1.                                *)

YARDS_IN_MILE == 1760
YARDS_IN_FURLONG == 220

\* from_yards taking the furlongs of the whole distance.
from_yards_of_total(total_yards) ==
    LET miles == total_yards \div YARDS_IN_MILE
        yards_after_miles == total_yards % YARDS_IN_MILE
        furlongs == total_yards \div YARDS_IN_FURLONG
        yards == yards_after_miles % YARDS_IN_FURLONG
    IN  [miles |-> miles, furlongs |-> furlongs, yards |-> yards]

from_yards(total_yards) ==
    LET miles == total_yards \div YARDS_IN_MILE
        yards_after_miles == total_yards % YARDS_IN_MILE
        furlongs == yards_after_miles \div YARDS_IN_FURLONG
        yards == yards_after_miles % YARDS_IN_FURLONG
    IN  [miles |-> miles, furlongs |-> furlongs, yards |-> yards]

\* Distances in yards: 0 .. MaxYards and distances next to 2^31.
YardInputs == (0 .. MaxYards) \cup {1000000, 2147481839, 2147483647}

InitDistance ==
    /\ \E t \in YardInputs : odds = [tag |-> "Yards", value |-> t]
    /\ config = default
    /\ call = "none"
    /\ result = NoResult
    /\ inited = {}
    /\ once = OnceInit

FromYards ==
    /\ call = "none"
    /\ call' = "from_yards"
    /\ result' = from_yards(odds.value)
    /\ UNCHANGED <<odds, config, inited, once>>

SpecDistance == InitDistance /\ [][FromYards]_vars

----------------------------------------------------------------------------
(* Properties.                                                             *)

v1 == odds.value

\* The tables a configuration selects, per conversion family.
SelectsBasic == config.lookup_tables_variant \in {"Basic", "Extended"}
SelectsExtended == config.lookup_tables_variant = "Extended"

InSelected(basic, extended) ==
    \/ SelectsBasic /\ v1 \in DOMAIN basic
    \/ SelectsExtended /\ v1 \in DOMAIN extended

\* The tabulated value, basic table first.
Tabulated(basic, extended) ==
    IF v1 \in DOMAIN basic THEN basic[v1] ELSE extended[v1]

\* a/100 + 1 and 100/(-a) + 1 as fractions.
FormulaDecimal(a) ==
    IF a > 0 THEN Norm(<<a + 100, 100>>) ELSE Norm(<<100 - a, -a>>)

\* C1: normalize_american_odds(x) is -(10000/x) for 1 <= x <= 99, 10000/(-x)
\* for -99 <= x <= -1 (integer division), and x itself for |x| >= 100 or x = 0.
C1_NormalizePiecewise ==
    call = "normalize_american_odds" =>
        result = Ok(IF 1 <= v1 /\ v1 <= 99 THEN -(10000 \div v1)
                    ELSE IF -99 <= v1 /\ v1 <= -1 THEN 10000 \div (-v1)
                    ELSE v1)

C1_Witness ==
    /\ call = "normalize_american_odds"
    /\ v1 = -99
    /\ result = Ok(101)

\* 100 * y, however rounded, is certainly an i32 when floor(y) is below
\* I32_MAX / 100, and certainly not when floor(y) is above it.
CertainlyFits(y) == DFloor(y) < I32_MAX \div 100
CertainlyOverflows(y) == DFloor(y) > I32_MAX \div 100

C3_AmericanToDecimalFormula ==
    (/\ call = "american_to_decimal_custom"
     /\ v1 # 0
     /\ ~InSelected(get_american_to_decimal_map, get_american_to_decimal_extended_map))
        => result = Ok(FormulaDecimal(v1))

C3_Witness ==
    /\ call = "american_to_decimal_custom"
    /\ v1 = -110
    /\ config.lookup_tables_variant = "None"
    /\ result = Ok(<<21, 11>>)

\* C4: with lookup enabled, a key of a selected table gets the tabulated
\* value from american_to_decimal_custom, american_to_fractional_custom and
\* decimal_to_fractional_custom, whatever the fraction strategy and whatever
\* the computation would give.
C4_LookupPrecedence ==
    /\ (call = "american_to_decimal_custom"
        /\ InSelected(get_american_to_decimal_map, get_american_to_decimal_extended_map))
            => result = Ok(Tabulated(get_american_to_decimal_map,
                                     get_american_to_decimal_extended_map))
    /\ (call = "american_to_fractional_custom"
        /\ InSelected(get_american_to_fraction_map, get_american_to_fraction_extended_map))
            => result = Ok(Tabulated(get_american_to_fraction_map,
                                     get_american_to_fraction_extended_map))
    /\ (call = "decimal_to_fractional_custom"
        /\ InSelected(get_decimal_to_fraction_map, get_decimal_to_fraction_extended_map))
            => result = Ok(Tabulated(get_decimal_to_fraction_map,
                                     get_decimal_to_fraction_extended_map))

C4_Witness ==
    /\ call = "decimal_to_fractional_custom"
    /\ config.lookup_tables_variant = "Basic"
    /\ config.fraction_strategy = "Plain"
    /\ v1 = Dec(133, 2)
    /\ result = Ok(<<1, 3>>)
    /\ decimal_to_fractional_plain(v1, config) = Ok(<<33, 100>>)

LookupCalls ==
    {"american_to_decimal_custom", "american_to_fractional_custom",
     "decimal_to_fractional_custom"}

BasicTables == {"DECIMAL_TO_FRACTION", "AMERICAN_TO_FRACTION", "AMERICAN_TO_DECIMAL"}

\* C5: the lookup variant alone decides which tables a conversion consults:
\* None consults no table, Basic only basic tables, Extended the basic table
\* first and then the extended one; a miss in every selected table falls
\* through to computation.
C5_LookupVariantDecides ==
    call \in LookupCalls =>
        /\ config.lookup_tables_variant = "None" => inited = {}
        /\ config.lookup_tables_variant = "Basic" => inited \subseteq BasicTables
        /\ (call = "decimal_to_fractional_custom"
            /\ ~InSelected(get_decimal_to_fraction_map, get_decimal_to_fraction_extended_map))
                => result = IF config.fraction_strategy = "Plain"
                            THEN decimal_to_fractional_plain(v1, config)
                            ELSE decimal_to_fractional_simplify(v1)
        /\ (call = "american_to_decimal_custom"
            /\ ~InSelected(get_american_to_decimal_map, get_american_to_decimal_extended_map))
                => result = american_to_decimal_inner(v1)

\* C6: when a is in no American->Fractional table selected by cfg,
\* american_to_fractional_custom(a, cfg) equals
\* decimal_to_fractional_custom(d, cfg) for the formula decimal d of a: the
\* fallback consults no table with lookup disabled and uses the plain
\* algorithm under the Plain strategy.
C6_FallbackHonoursConfig ==
    (/\ call = "american_to_fractional_custom"
     /\ v1 # 0
     /\ ~InSelected(get_american_to_fraction_map, get_american_to_fraction_extended_map))
        => result = decimal_to_fractional_custom(FormulaDecimal(v1), config)

\* C7: decimal_to_fractional_custom and decimal_to_american_custom return
\* Err(InvalidDecimal) for every decimal v <= 1.0 under every configuration.
C7_InvalidDecimal ==
    (call \in {"decimal_to_fractional_custom", "decimal_to_american_custom"}
     /\ DLe(v1, ONE))
        => result = Err("InvalidDecimal")

C7_Witness ==
    /\ call = "decimal_to_fractional_custom"
    /\ v1 = ONE
    /\ config.lookup_tables_variant = "Extended"
    /\ config.fraction_strategy = "Plain"
    /\ result = Err("InvalidDecimal")

DivisorsOf100000 == {k \in 1 .. 100000 : 100000 % k = 0}
GreatestCommon(n) ==
    CHOOSE g \in DivisorsOf100000 :
        /\ n % g = 0
        /\ \A h \in DivisorsOf100000 : n % h = 0 => h <= g

SimplifyCalled ==
    \/ call = "decimal_to_fractional_simplify"
    \/ /\ call = "decimal_to_fractional_custom"
       /\ config.fraction_strategy = "Simplify"
       /\ ~InSelected(get_decimal_to_fraction_map, get_decimal_to_fraction_extended_map)

\* C10: for every v > 1, decimal_to_fractional_simplify returns a
\* denominator d with 1 <= d <= 1000.
C10_DenominatorBounded ==
    (SimplifyCalled /\ DGt(v1, ONE))
        => /\ result.ok
           /\ 1 <= result.val[2]
           /\ result.val[2] <= 1000

\* The loop left through the denominator limit and kept a convergent found
\* before: 1.0013 gives 1/769, the next convergent 4/3077 is discarded.
C10_Witness ==
    /\ call = "decimal_to_fractional_simplify"
    /\ v1 = Dec(10013, 4)
    /\ simplify_loop(simplify_start(DSub(v1, ONE)), DSub(v1, ONE)).exit = "max_denominator"
    /\ result = Ok(<<1, 769>>)

\* C11: fractional_to_decimal(n, d) is Err(DenominatorZero) when d = 0 and
\* n/d + 1 otherwise, and Odds::Fractional{n, d}.to_decimal_custom(cfg) returns
\* that same result under every configuration.
C11_FractionalToDecimal ==
    call = "fractional_to_decimal" =>
        /\ result = IF odds.den = 0 THEN Err("DenominatorZero")
                    ELSE Ok(Norm(<<odds.num + odds.den, odds.den>>))
        /\ \A cfg \in ConversionConfig : to_decimal_custom(odds, cfg) = result

C11_Witness ==
    /\ call = "fractional_to_decimal"
    /\ odds = Fractional(4, 6)
    /\ result = Ok(<<5, 3>>)
    /\ MapGet(get_decimal_to_fraction_map, Dec(167, 2)) = Some(<<4, 6>>)

\* C12: fractional_to_american_custom(n, d, cfg) is Err(DenominatorZero) when
\* d = 0 and decimal_to_american_custom(n/d + 1, cfg) otherwise, errors included.
C12_FractionalToAmerican ==
    call = "fractional_to_american_custom" =>
        result = IF odds.den = 0 THEN Err("DenominatorZero")
                 ELSE decimal_to_american_custom(
                          Norm(<<odds.num + odds.den, odds.den>>), config)

C12_Witness ==
    /\ call = "fractional_to_american_custom"
    /\ odds = Fractional(1, 20)
    /\ result = Ok(-2000)

\* The configuration ConversionConfig::default().no_lookup() as far as the
\* American <-> Decimal conversions read it.
NoLookupConfig ==
    /\ config.lookup_tables_variant = "None"
    /\ config.rounding_strategy = "MidpointAwayFromZero"

\* C13 as stated: with lookup disabled, converting any American a with
\* |a| >= 100 to decimal and back gives a.
C13_RoundTrip ==
    (call = "american_to_decimal_custom" /\ NoLookupConfig /\ Abs(v1) >= 100) =>
        /\ result.ok
        /\ decimal_to_american_custom(result.val, config) = Ok(v1)

\* C13 amended: with lookup disabled, converting any American a with
\* |a| >= 100 other than -100 to decimal and back gives a; -100 becomes 2.0,
\* which converts back to 100.
C13_RoundTripExceptMinus100 ==
    (call = "american_to_decimal_custom" /\ NoLookupConfig /\ Abs(v1) >= 100) =>
        /\ result.ok
        /\ decimal_to_american_custom(result.val, config)
                = Ok(IF v1 = -100 THEN 100 ELSE v1)

C13_Witness ==
    /\ call = "american_to_decimal_custom"
    /\ NoLookupConfig
    /\ v1 = -150
    /\ result = Ok(<<5, 3>>)
    /\ decimal_to_american_custom(result.val, config) = Ok(-150)

\* C14: converting an Odds value to its own representation returns the held
\* value when it is valid and fails as the other conversions do when it is
\* not: InvalidDecimal for a decimal <= 1, DenominatorZero for a zero
\* denominator, AmericanZero for American 0.
C14_OwnRepresentation ==
    /\ (call = "to_decimal_custom" /\ odds.tag = "Decimal") =>
            result = IF DLe(odds.value, ONE) THEN Err("InvalidDecimal")
                     ELSE Ok(odds.value)
    /\ (call = "to_fractional_custom" /\ odds.tag = "Fractional") =>
            result = IF odds.den = 0 THEN Err("DenominatorZero")
                     ELSE Ok(<<odds.num, odds.den>>)
    /\ (call = "to_american_custom" /\ odds.tag = "American") =>
            result = IF odds.value = 0 THEN Err("AmericanZero")
                     ELSE Ok(odds.value)

\* C15: every conversion call returns Ok or one of the four errors, also for
\* decimals at the ends of the type's range; none panics.
C15_Total ==
    call # "none" => (result.ok \/ result.err \in ConversionError)

\* What a builder step may change: one field, given as the pair of its name
\* and new value; the other two fields of the returned copy are those of the
\* receiver.
Sets(lookup, fraction, rounding) ==
    result'.val = [lookup_tables_variant |-> lookup,
                   fraction_strategy |-> fraction,
                   rounding_strategy |-> rounding]

\* C16: the default configuration is (Basic, Simplify, MidpointAwayFromZero);
\* each builder returns a copy of its receiver in which only its own field is
\* changed, to the value the builder names, and leaves the configuration the
\* chain started from as it was.
C16_Builders ==
    /\ [](config = [lookup_tables_variant |-> "Basic",
                    fraction_strategy |-> "Simplify",
                    rounding_strategy |-> "MidpointAwayFromZero"])
    /\ [][LET r == receiver
          IN  /\ call' = "no_lookup" =>
                    Sets("None", r.fraction_strategy, r.rounding_strategy)
              /\ call' = "extended_lookup" =>
                    Sets("Extended", r.fraction_strategy, r.rounding_strategy)
              /\ call' = "plain_fraction_strategy" =>
                    Sets(r.lookup_tables_variant, "Plain", r.rounding_strategy)
              /\ \A s \in FractionStrategy :
                    call' = "fraction_strategy " \o s =>
                        Sets(r.lookup_tables_variant, s, r.rounding_strategy)
              /\ \A s \in RoundingStrategy :
                    call' = "rounding_strategy " \o s =>
                        Sets(r.lookup_tables_variant, r.fraction_strategy, s)]_vars

\* A chain of three builders: each field holds the last value set for it.
C16_Witness ==
    /\ call = "rounding_strategy ToZero"
    /\ result = Ok([lookup_tables_variant |-> "Extended",
                    fraction_strategy |-> "Plain",
                    rounding_strategy |-> "ToZero"])

\* C17: to_decimal_str_custom renders the converted decimal with two decimal
\* places, rounded half away from zero, gives the same string whatever the
\* configured rounding strategy, and returns a conversion error unchanged.
C17_DecimalStr ==
    call = "to_decimal_str_custom" =>
        LET decimal == to_decimal_custom(odds, config)
            whole == decimal.val[1] \div decimal.val[2]
            cents == (200 * (decimal.val[1] % decimal.val[2]) + decimal.val[2])
                        \div (2 * decimal.val[2])
        IN  /\ ~decimal.ok => result = decimal
            /\ decimal.ok =>
                    result = Ok(ToString(whole + cents \div 100) \o "."
                                \o ToString((cents % 100) \div 10)
                                \o ToString(cents % 10))
            /\ \A s \in RoundingStrategy :
                    to_decimal_str_custom(odds, [config EXCEPT !.rounding_strategy = s])
                        = result

C17_Witness ==
    /\ call = "to_decimal_str_custom"
    /\ odds = Fractional(2, 3)
    /\ config.rounding_strategy = "ToZero"
    /\ result = Ok("1.67")

\* C18: under every interleaving of threads accessing a table, its
\* initializer is started at most once and exactly once when the table is
\* initialised, every accessor is returned the fully populated table, and an
\* initialised table stays initialised with the same contents.
C18_BuiltOnce ==
    /\ [](\A table \in OnceTables :
            /\ once.builds[table] <= 1
            /\ table \in inited =>
                    (once.builds[table] = 1 /\ once.value[table] = Full(table))
            /\ \A t \in Threads : once.seen[t][table] \in {-1, Full(table)})
    /\ [][\A table \in inited :
            table \in inited' /\ once'.value[table] = once.value[table]]_vars

\* Two threads met at the first access of a table: one is part-way through
\* the initializer, the other waits; the third was returned the other table.
C18_Witness ==
    \E a, b, c \in Threads :
        /\ once.pc[a] = [at |-> "building", table |-> "DECIMAL_TO_FRACTION",
                         m |-> InsertChunk]
        /\ once.pc[b] = [at |-> "blocked", table |-> "DECIMAL_TO_FRACTION", m |-> 0]
        /\ once.seen[c]["AMERICAN_TO_DECIMAL"] = Full("AMERICAN_TO_DECIMAL")
        /\ once.seen[b]["DECIMAL_TO_FRACTION"] = -1

\* What the function named c returns for the value o and the configuration
\* cfg.
Returned(c, o, cfg) ==
    CASE c = "normalize_american_odds" -> Ok(normalize_american_odds(o.value))
      [] c = "american_to_decimal_custom" -> american_to_decimal_custom(o.value, cfg)
      [] c = "american_to_fractional_custom" ->
            american_to_fractional_custom(o.value, cfg)
      [] c = "decimal_to_fractional_custom" ->
            decimal_to_fractional_custom(o.value, cfg)
      [] c = "decimal_to_fractional_plain" -> decimal_to_fractional_plain(o.value, cfg)
      [] c = "decimal_to_fractional_simplify" -> decimal_to_fractional_simplify(o.value)
      [] c = "decimal_to_american_custom" -> decimal_to_american_custom(o.value, cfg)
      [] c = "fractional_to_decimal" -> fractional_to_decimal(o.num, o.den)
      [] c = "fractional_to_american_custom" ->
            fractional_to_american_custom(o.num, o.den, cfg)
      [] c = "to_american_custom" -> to_american_custom(o, cfg)
      [] c = "to_fractional_custom" -> to_fractional_custom(o, cfg)
      [] c = "to_decimal_custom" -> to_decimal_custom(o, cfg)
      [] c = "to_fractional_str_custom" -> to_fractional_str_custom(o, cfg)
      [] c = "to_decimal_str_custom" -> to_decimal_str_custom(o, cfg)

AllTables ==
    {"DECIMAL_TO_FRACTION", "DECIMAL_TO_FRACTION_EXTENDED", "AMERICAN_TO_FRACTION",
     "AMERICAN_TO_FRACTION_EXTENDED", "AMERICAN_TO_DECIMAL",
     "AMERICAN_TO_DECIMAL_EXTENDED"}

ConvertedDecimal ==
    IF odds.tag = "Decimal" THEN odds.value
    ELSE Norm(<<odds.num + odds.den, odds.den>>)

\* C20: every Ok result of decimal_to_american_custom and of
\* fractional_to_american_custom is >= 100 when the decimal is >= 2 and
\* <= -100 when it is below 2, under every rounding strategy, so it is not 0
\* and normalize_american_odds leaves it alone.
C20_MagnitudeAtLeast100 ==
    (call \in {"decimal_to_american_custom", "fractional_to_american_custom"}
        /\ result.ok) =>
        /\ IF DGe(ConvertedDecimal, TWO) THEN result.val >= 100
           ELSE result.val <= -100
        /\ result.val # 0
        /\ normalize_american_odds(result.val) = result.val

C20_Witness ==
    /\ call = "fractional_to_american_custom"
    /\ odds = Fractional(999, 1000)
    /\ config.rounding_strategy = "ToZero"
    /\ result = Ok(-100)

\* C21: with lookup disabled and the Plain strategy, for every v > 1 with at
\* most three decimal places decimal_to_fractional_custom returns (num, den)
\* with den >= 1 and num/den exactly equal to v - 1.
C21_PlainSound ==
    (/\ call = "decimal_to_fractional_custom"
     /\ config.lookup_tables_variant = "None"
     /\ config.fraction_strategy = "Plain"
     /\ DGt(v1, ONE)
     /\ 1000 % v1[2] = 0)
        => /\ result.ok
           /\ result.val[2] >= 1
           /\ result.val[1] * v1[2] = (v1[1] - v1[2]) * result.val[2]

\* C22: for every v > 1, decimal_to_fractional_simplify returns a numerator
\* >= 1, and the returned fraction converts back through
\* fractional_to_decimal to a decimal strictly greater than 1.
C22_NumeratorPositive ==
    (SimplifyCalled /\ DGt(v1, ONE))
        => /\ result.ok
           /\ result.val[1] >= 1
           /\ LET back == fractional_to_decimal(result.val[1], result.val[2])
              IN  back.ok /\ DGt(back.val, ONE)

\* x * y for a u64 x and a u64 y <= MAX_DENOMINATOR, in limbs (no saturation).
CrossProduct(x, y) == wide_scale(x, y[1], 1, 0)

\* |x - y| = 1 for limbs x and y.
DiffersByOne(x, y) ==
    \/ x = wide_sum(y, Wide(1), 1, 0)
    \/ y = wide_sum(x, Wide(1), 1, 0)

\* gcd of a u32 held as two limbs and an integer 1 <= m <= MAX_DENOMINATOR.
GcdU32(w, m) == gcd(m, ((w[2] % m) * (LIMB % m) + w[1]) % m)

\* C23: after every iteration of the loop of decimal_to_fractional_simplify
\* |num * den_prev - num_prev * den| = 1, and the fraction the function
\* returns is in lowest terms.
C23_ConvergentInvariant ==
    /\ call = "loop" =>
            DiffersByOne(CrossProduct(result.num, result.den_prev),
                         CrossProduct(result.num_prev, result.den))
    /\ (call = "decimal_to_fractional_simplify" /\ result.ok) =>
            GcdU32(result.val[1], result.val[2][1]) = 1

\* The denominator of the current convergent as an integer.
DenOf(st) == st.den[1]

\* C24: decimal_to_fractional_simplify terminates for every v > 1.  A pass
\* through the loop body either leaves the loop by one of its three exits or
\* divides by a remainder that is not zero; from the third pass on a pass
\* that stores a convergent increases the denominator, which stays within
\* MAX_DENOMINATOR, so the passes of a call number at most den + 2.
C24_Terminates ==
    /\ [](call = "loop" =>
            /\ ~wide_less(Wide(MAX_DENOMINATOR), result.den)
            /\ result.iterations <= DenOf(result) + 2)
    /\ [][(call = "loop" /\ call' = "loop") =>
            /\ result'.iterations = result.iterations + 1
            /\ result'.exit \in {"none", "epsilon", "max_denominator", "overflow"}
            /\ result'.exit = "none" =>
                    /\ result'.remainder[1] # 0
                    /\ result'.a = [whole |-> Wide(result'.remainder[2]
                                                     \div result'.remainder[1]),
                                    frac |-> Norm(<<result'.remainder[2]
                                                      % result'.remainder[1],
                                                    result'.remainder[1]>>)]
            /\ (result.iterations >= 2 /\ result'.exit \in {"none", "epsilon"}) =>
                    wide_less(result.den, result'.den)]_vars

\* 1.0013: the third pass finds the denominator 3077 and leaves the loop
\* with the convergent 1/769 of the second pass.
C24_Witness ==
    /\ call = "loop"
    /\ odds.value = [whole |-> Wide(1), frac |-> Dec(13, 4)]
    /\ result.exit = "max_denominator"
    /\ result.iterations = 3
    /\ result.num = Wide(1)
    /\ result.den = Wide(769)

\* min(v - 1, 0.01) for the decimal v the loop runs on.
EpsilonOf(v) ==
    IF v.whole = Wide(1) THEN DMin(v.frac, <<1, 100>>) ELSE <<1, 100>>

\* What decimal_to_fractional_simplify returned for the decimal whole + n/d.
SimplifyReturned(whole, n, d, num, den) ==
    (call = "decimal_to_fractional_simplify"
        /\ odds.value = [whole |-> Wide(whole), frac |-> Norm(<<n, d>>)])
        => result = Ok(<<as_u32(Wide(num)), as_u32(Wide(den))>>)

\* C25: a pass of the loop that stores a convergent accepts it and ends the
\* loop exactly when the remainder after subtracting the floor is strictly
\* less than epsilon = min(v - 1, 0.01); 1.333 and 1.3337 give (1, 3), 1.001
\* gives (1, 1000) and 1.49 gives (49, 100).
C25_EpsilonAcceptance ==
    /\ [][(call = "loop" /\ call' = "loop" /\ result'.exit \in {"none", "epsilon"}) =>
            /\ result'.remainder = result.a.frac
            /\ result'.exit = "epsilon"
                    <=> DLt(result'.remainder, EpsilonOf(odds.value))]_vars
    /\ [](/\ SimplifyReturned(1, 333, 1000, 1, 3)
          /\ SimplifyReturned(1, 3337, 10000, 1, 3)
          /\ SimplifyReturned(1, 1, 1000, 1, 1000)
          /\ SimplifyReturned(1, 49, 100, 49, 100))

\* 1.49: the convergent 1/2 of the second pass leaves the remainder 2/49,
\* which is not below 0.01; the loop goes on and accepts 49/100.
C25_Witness ==
    /\ call = "loop"
    /\ odds.value = [whole |-> Wide(1), frac |-> Dec(49, 2)]
    /\ result.exit = "epsilon"
    /\ result.num = Wide(49)
    /\ result.den = Wide(100)
    /\ result.num_prev = Wide(24)
    /\ result.den_prev = Wide(49)

\* The fraction held by odds is in lowest terms, with n >= 1 and d >= 1.
LowestTerms == odds.num >= 1 /\ odds.den >= 1 /\ gcd(odds.num, odds.den) = 1

\* C26 as stated: for every fraction n/d in lowest terms with n >= 1 and
\* 1 <= d <= 1000, decimal_to_fractional_simplify(n/d + 1) returns (n, d).
C26_RoundTrip ==
    (call = "decimal_to_fractional_simplify" /\ LowestTerms /\ odds.den <= 1000)
        => result = Ok(<<odds.num, odds.den>>)

\* C26 amended: for every fraction n/d in lowest terms with n >= 1 and
\* 1 <= d <= 100, decimal_to_fractional_simplify(n/d + 1) returns (n, d).
C26_RoundTripUpTo100 ==
    (call = "decimal_to_fractional_simplify" /\ LowestTerms /\ odds.den <= 100)
        => result = Ok(<<odds.num, odds.den>>)

\* 199/100 comes back as itself: the remainder 1/99 left by the convergent
\* 2/1 is not below epsilon.
C26_Witness ==
    /\ call = "decimal_to_fractional_simplify"
    /\ odds = Fractional(199, 100)
    /\ result = Ok(<<199, 100>>)

\* C27: under the default configuration american_to_fractional(a) equals
\* decimal_to_fractional(american_to_decimal(a)) for every nonzero a; the
\* basic American->Fractional and American->Decimal tables have the same
\* keys, every tabulated decimal is a key of the basic Decimal->Fractional
\* table (and every such key is tabulated), and the entries agree.
C27_DefaultCommutes ==
    /\ (call = "american_to_fractional_custom" /\ config = default /\ v1 # 0) =>
            LET decimal == american_to_decimal_custom(v1, default)
            IN  /\ decimal.ok
                /\ result = decimal_to_fractional(decimal.val)
                /\ v1 \in DOMAIN get_american_to_fraction_map =>
                        /\ v1 \in DOMAIN get_american_to_decimal_map
                        /\ decimal.val \in DOMAIN get_decimal_to_fraction_map
                        /\ result = Ok(get_american_to_fraction_map[v1])
                        /\ get_decimal_to_fraction_map[get_american_to_decimal_map[v1]]
                                = get_american_to_fraction_map[v1]
    /\ DOMAIN get_american_to_fraction_map = DOMAIN get_american_to_decimal_map
    /\ DOMAIN get_decimal_to_fraction_map
            = {get_american_to_decimal_map[a] : a \in DOMAIN get_american_to_decimal_map}

\* -150 is tabulated as 4/6 and as 1.67, and 1.67 is tabulated as 4/6.
C27_Witness ==
    /\ call = "american_to_fractional_custom"
    /\ config = default
    /\ v1 = -150
    /\ result = Ok(<<4, 6>>)
    /\ american_to_decimal_custom(v1, default) = Ok(Dec(167, 2))
    /\ decimal_to_fractional(Dec(167, 2)) = Ok(<<4, 6>>)

\* C28: for every configuration the manual lookup functions return Some(f)
\* exactly when the conversion under the same configuration would return f
\* from a table (a key of the basic table under Basic or Extended, a key of
\* the extended table under Extended), and None otherwise.
C28_ManualLookupAgrees ==
    /\ call = "lookup_decimal_to_fraction_with_config" =>
            result = IF InSelected(get_decimal_to_fraction_map,
                                   get_decimal_to_fraction_extended_map)
                     THEN Some(Tabulated(get_decimal_to_fraction_map,
                                         get_decimal_to_fraction_extended_map))
                     ELSE None
    /\ call = "lookup_american_to_fraction_with_config" =>
            result = IF InSelected(get_american_to_fraction_map,
                                   get_american_to_fraction_extended_map)
                     THEN Some(Tabulated(get_american_to_fraction_map,
                                         get_american_to_fraction_extended_map))
                     ELSE None

\* C29: every Ok result of an Odds conversion is a valid value of its target
\* representation: to_american returns a nonzero integer, to_decimal a
\* decimal strictly greater than 1, to_fractional a pair with denominator
\* > 0.
C29_ValidResults ==
    /\ (call = "to_american_custom" /\ result.ok) => result.val # 0
    /\ (call = "to_decimal_custom" /\ result.ok) => DGt(result.val, ONE)
    /\ (call = "to_fractional_custom" /\ result.ok) => result.val[2] > 0

\* C30: RaceDistance::from_yards(t) decomposes t exactly:
\* miles * 1760 + furlongs * 220 + yards = t with furlongs <= 7 and
\* yards <= 219; 1759 gives 0m 7f 219y and 2000 gives 1m 1f 20y.
C30_FromYards ==
    call = "from_yards" =>
        /\ result.miles >= 0 /\ result.furlongs >= 0 /\ result.yards >= 0
        /\ result.miles * 1760 + result.furlongs * 220 + result.yards = odds.value
        /\ result.furlongs <= 7
        /\ result.yards <= 219
        /\ odds.value = 1759 => result = [miles |-> 0, furlongs |-> 7, yards |-> 219]
        /\ odds.value = 2000 => result = [miles |-> 1, furlongs |-> 1, yards |-> 20]

\* 5279 yards, one short of three miles: 2m 7f 219y.
C30_Witness ==
    /\ call = "from_yards"
    /\ odds.value = 5279
    /\ result = [miles |-> 2, furlongs |-> 7, yards |-> 219]

====
